---------------------------- MODULE Spec2Model ----------------------------
(***************************************************************************)
(* Turn-based dungeon crawler: the input/interaction state machine of      *)
(* input_handlers.py, the outer loop of main.py and the behaviour          *)
(* strategies of components/ai.py.                                         *)
(*                                                                         *)
(* Handlers are values (records tagged with the class name in `kind`);     *)
(* every ev_* method is an operator from (self, engine, event) to a result *)
(* record [ret, self, engine]: what the method returns and the handler and *)
(* engine as the method leaves them.                                       *)
(***************************************************************************)
EXTENDS Integers, Sequences, FiniteSets, TLC

VARIABLES
    handler,    \* main.py: the active event handler (replace-on-transition)
    engine,     \* the Engine the handlers share (player, message log, cursor)
    pc,         \* where the outer loop is inside handle_events/handle_action
    action,     \* the Action returned by dispatch, while it is being resolved
    effects,    \* what resolving the current event has done so far, in order
    exit,       \* how the program ended ("running" while it has not)
    savefile,   \* whether savegame.sav exists on disk
    game_map,   \* the tiles: which are walkable, which the player sees
    entity,     \* the hostile actor: where it stands and its ai slot
    heap,       \* the strategy objects created so far, by identity
    turn        \* what the actor's ai.perform() of this turn did

ui_vars == <<handler, action, effects, exit, savefile>>

ai_vars == <<game_map, entity, heap, turn>>

vars == <<handler, engine, pc, action, effects, exit, savefile,
          game_map, entity, heap, turn>>

(***************************************************************************)
(* Bounds of the model.                                                    *)
(***************************************************************************)
MaxLog == 1          \* messages the log may hold before logging steps stop
Capacity == 2        \* items the inventory holds at most (SpecInventory)
MaxLevelUps == 2     \* levels the dungeon's experience pays for (SpecLevelUp)
MaxHistLog == 12     \* longest log a history viewer is opened on (SpecHistory)
MaxTurns == 2        \* turns a confusion lasts at most (SpecAI)
MaxCasts == 2        \* confusions the player can cast in one game (SpecAI)

(***************************************************************************)
(* tcod.event key symbols (SDL key codes) named in input_handlers.py.      *)
(***************************************************************************)
K_UP == 1073741906
K_DOWN == 1073741905
K_LEFT == 1073741904
K_RIGHT == 1073741903
K_HOME == 1073741898
K_END == 1073741901
K_PAGEUP == 1073741899
K_PAGEDOWN == 1073741902
K_KP_1 == 1073741913
K_KP_2 == 1073741914
K_KP_3 == 1073741915
K_KP_4 == 1073741916
K_KP_5 == 1073741917
K_KP_6 == 1073741918
K_KP_7 == 1073741919
K_KP_8 == 1073741920
K_KP_9 == 1073741921
K_a == 97
K_s == 115
K_w == 119
K_d == 100
K_PERIOD == 46
K_CLEAR == 1073741980
K_RETURN == 13
K_KP_ENTER == 1073741912
K_LSHIFT == 1073742049
K_RSHIFT == 1073742053
K_LCTRL == 1073742048
K_RCTRL == 1073742052
K_LALT == 1073742050
K_RALT == 1073742054
K_LGUI == 1073742051
K_RGUI == 1073742055
K_MODE == 1073742081
K_x == 120
K_ESCAPE == 27
K_h == 104
K_g == 103
K_r == 114
K_f == 102
K_z == 122
K_SLASH == 47
K_SPACE == 32

KMOD_LSHIFT == 1
KMOD_RSHIFT == 2
KMOD_LCTRL == 64
KMOD_RCTRL == 128
KMOD_LALT == 256
KMOD_RALT == 512

\* event.mod & mask: whether the two bit sets share a bit (masks are sums of
\* distinct powers of two).
RECURSIVE BitAnd(_, _)
BitAnd(a, b) ==
    IF a = 0 \/ b = 0 THEN 0
    ELSE (IF a % 2 = 1 /\ b % 2 = 1 THEN 1 ELSE 0) + 2 * BitAnd(a \div 2, b \div 2)

MOVE_KEYS ==
    [k \in {K_UP, K_DOWN, K_LEFT, K_RIGHT, K_HOME, K_END, K_PAGEUP, K_PAGEDOWN,
            K_KP_1, K_KP_2, K_KP_3, K_KP_4, K_KP_6, K_KP_7, K_KP_8, K_KP_9,
            K_a, K_s, K_w, K_d} |->
        CASE k = K_UP -> <<0, -1>>
          [] k = K_DOWN -> <<0, 1>>
          [] k = K_LEFT -> <<-1, 0>>
          [] k = K_RIGHT -> <<1, 0>>
          [] k = K_HOME -> <<-1, -1>>
          [] k = K_END -> <<-1, 1>>
          [] k = K_PAGEUP -> <<1, -1>>
          [] k = K_PAGEDOWN -> <<1, 1>>
          [] k = K_KP_1 -> <<-1, 1>>
          [] k = K_KP_2 -> <<0, 1>>
          [] k = K_KP_3 -> <<1, 1>>
          [] k = K_KP_4 -> <<-1, 0>>
          [] k = K_KP_6 -> <<1, 0>>
          [] k = K_KP_7 -> <<-1, -1>>
          [] k = K_KP_8 -> <<0, -1>>
          [] k = K_KP_9 -> <<1, -1>>
          [] k = K_a -> <<-1, 0>>
          [] k = K_s -> <<0, 1>>
          [] k = K_w -> <<0, -1>>
          [] k = K_d -> <<1, 0>>]

WAIT_KEYS == {K_PERIOD, K_KP_5, K_CLEAR}

CONFIRM_KEYS == {K_RETURN, K_KP_ENTER}

\* The keys AskUserEventHandler.ev_keydown ignores.
MODIFIER_KEYS ==
    {K_LSHIFT, K_RSHIFT, K_LCTRL, K_RCTRL, K_LALT, K_RALT, K_LGUI, K_RGUI, K_MODE}

CURSOR_Y_KEYS ==
    [k \in {K_UP, K_DOWN, K_PAGEUP, K_PAGEDOWN} |->
        CASE k = K_UP -> -1
          [] k = K_DOWN -> 1
          [] k = K_PAGEUP -> -10
          [] k = K_PAGEDOWN -> 10]

Max(a, b) == IF a >= b THEN a ELSE b
Min(a, b) == IF a <= b THEN a ELSE b


(***************************************************************************)
(* Values returned by the ev_* methods: None, an Action, another handler,  *)
(* or a raised exception.                                                  *)
(***************************************************************************)
None == [tag |-> "None"]
Act(a) == [tag |-> "Action", action |-> a]
Hnd(h) == [tag |-> "Handler", handler |-> h]
Raise(e) == [tag |-> "Raise", exc |-> e]

\* What a method call leaves behind: its return value, the handler object and
\* the engine as mutated, and whether os.remove("savegame.sav") was reached.
Res(ret, self, eng) == [ret |-> ret, self |-> self, engine |-> eng, unlink |-> FALSE]

\* engine.message_log.add_message(text, ...)
add_message(eng, text) == [eng EXCEPT !.message_log = Append(@, text)]

\* engine.game_map.in_bounds(x, y)
in_bounds(eng, x, y) == 0 <= x /\ x < eng.width /\ 0 <= y /\ y < eng.height

(***************************************************************************)
(* The items of the world.  What an item is decides what selecting it in   *)
(* the inventory returns (InventoryActivateHandler.on_item_selected).      *)
(***************************************************************************)
Items == 1 .. 3

ItemKind(item) ==
    CASE item = 1 -> "confusion"     \* consumable, asks for a single target
      [] item = 2 -> "fireball"      \* consumable, asks for an area target
      [] item = 3 -> "sword"         \* equippable

consumable(item) == ItemKind(item) \in {"confusion", "fireball"}
equippable(item) == ItemKind(item) = "sword"

(***************************************************************************)
(* Handler constructors.                                                   *)
(***************************************************************************)
MainGameEventHandler == [kind |-> "MainGameEventHandler"]
GameOverEventHandler == [kind |-> "GameOverEventHandler"]
LevelUpEventHandler == [kind |-> "LevelUpEventHandler"]
CharacterScreenEventHandler == [kind |-> "CharacterScreenEventHandler"]
InventoryActivateHandler == [kind |-> "InventoryActivateHandler"]
InventoryDropHandler == [kind |-> "InventoryDropHandler"]
LookHandler == [kind |-> "LookHandler"]
SingleRangedAttackHandler(item) ==
    [kind |-> "SingleRangedAttackHandler", callback |-> item]
AreaRangedAttackHandler(radius, item) ==
    [kind |-> "AreaRangedAttackHandler", radius |-> radius, callback |-> item]

\* PopupMessage.__init__: the text is only drawn.
PopupMessage(parent_handler) == [kind |-> "PopupMessage", parent |-> parent_handler]

\* HistoryViewer.__init__
HistoryViewer(eng) ==
    [kind |-> "HistoryViewer",
     log_length |-> Len(eng.message_log),
     cursor |-> Len(eng.message_log) - 1]

\* SelectIndexHandler.__init__: the cursor starts on the player.
SelectIndexHandler_init(eng) == [eng EXCEPT !.mouse_location = eng.player_xy]

AskUserKinds ==
    {"CharacterScreenEventHandler", "LevelUpEventHandler",
     "InventoryActivateHandler", "InventoryDropHandler", "LookHandler",
     "SingleRangedAttackHandler", "AreaRangedAttackHandler"}
InventoryKinds == {"InventoryActivateHandler", "InventoryDropHandler"}
SelectIndexKinds ==
    {"LookHandler", "SingleRangedAttackHandler", "AreaRangedAttackHandler"}
EventHandlerKinds ==
    AskUserKinds \cup {"MainGameEventHandler", "GameOverEventHandler", "HistoryViewer"}
BaseEventHandlerKinds == EventHandlerKinds \cup {"PopupMessage"}

(***************************************************************************)
(* BaseEventHandler, EventHandler                                          *)
(***************************************************************************)
BaseEventHandler_ev_quit(self, eng, event) == Res(Raise("SystemExit"), self, eng)

\* PopupMessage.ev_keydown: any key returns the parent handler.
PopupMessage_ev_keydown(self, eng, event) == Res(Hnd(self.parent), self, eng)

\* An ev_mousemotion that takes the tile as it comes.
EventHandler_ev_mousemotion_unchecked(self, eng, event) ==
    Res(None, self, [eng EXCEPT !.mouse_location = event.tile])

\* EventHandler.ev_mousemotion: the cursor follows the mouse over the map.
EventHandler_ev_mousemotion(self, eng, event) ==
    IF in_bounds(eng, event.tile[1], event.tile[2])
    THEN Res(None, self, [eng EXCEPT !.mouse_location = event.tile])
    ELSE Res(None, self, eng)

(***************************************************************************)
(* AskUserEventHandler                                                     *)
(***************************************************************************)
AskUserEventHandler_on_exit(self, eng) == Res(Hnd(MainGameEventHandler), self, eng)

\* An ev_keydown that any key leaves, the modifier keys too.
AskUserEventHandler_ev_keydown_any_key(self, eng, event) == AskUserEventHandler_on_exit(self, eng)

\* AskUserEventHandler.ev_keydown: by default any key but a modifier exits.
AskUserEventHandler_ev_keydown(self, eng, event) ==
    IF event.sym \in MODIFIER_KEYS
    THEN Res(None, self, eng)
    ELSE AskUserEventHandler_on_exit(self, eng)

AskUserEventHandler_ev_mousebuttondown(self, eng, event) ==
    AskUserEventHandler_on_exit(self, eng)

(***************************************************************************)
(* LevelUpEventHandler                                                     *)
(***************************************************************************)
\* player.level.requires_level_up: the experience held pays for a level.
requires_level_up(eng) == eng.pending > 0

\* player.level.increase_max_hp / increase_power / increase_defense: the stat
\* goes up and one level's worth of experience is spent (increase_level).
increase_stat(eng, stat) ==
    [eng EXCEPT !.level_ups[stat] = @ + 1, !.pending = @ - 1]

increase_max_hp(eng) == increase_stat(eng, "max_hp")
increase_power(eng) == increase_stat(eng, "power")
increase_defense(eng) == increase_stat(eng, "defense")

\* A level-up menu that any key closes, as the other menus do.
LevelUpEventHandler_ev_keydown_exits(self, eng, event) ==
    LET index == event.sym - K_a IN
    IF 0 <= index /\ index <= 2
    THEN AskUserEventHandler_ev_keydown(
             self,
             IF index = 0 THEN increase_max_hp(eng)
             ELSE IF index = 1 THEN increase_power(eng)
             ELSE increase_defense(eng),
             event)
    ELSE AskUserEventHandler_ev_keydown(self, add_message(eng, "Invalid entry."), event)

LevelUpEventHandler_ev_keydown(self, eng, event) ==
    LET index == event.sym - K_a IN
    IF 0 <= index /\ index <= 2
    THEN AskUserEventHandler_ev_keydown(
             self,
             IF index = 0 THEN increase_max_hp(eng)
             ELSE IF index = 1 THEN increase_power(eng)
             ELSE increase_defense(eng),
             event)
    ELSE Res(None, self, add_message(eng, "Invalid entry."))

LevelUpEventHandler_ev_mousebuttondown(self, eng, event) == Res(None, self, eng)

(***************************************************************************)
(* InventoryEventHandler and its two subclasses                            *)
(***************************************************************************)
\* consumable.get_action(player): a scroll returns the targeting handler
\* whose callback builds the item's action.
get_action(eng, item) ==
    CASE ItemKind(item) = "confusion" ->
            [ret |-> Hnd(SingleRangedAttackHandler(item)),
             engine |-> SelectIndexHandler_init(eng)]
      [] OTHER ->
            [ret |-> Hnd(AreaRangedAttackHandler(3, item)),
             engine |-> SelectIndexHandler_init(eng)]

InventoryActivateHandler_on_item_selected(self, eng, item) ==
    IF consumable(item)
    THEN Res(get_action(eng, item).ret, self, get_action(eng, item).engine)
    ELSE IF equippable(item)
    THEN Res(Act([type |-> "EquipAction", item |-> item]), self, eng)
    ELSE Res(None, self, eng)

InventoryDropHandler_on_item_selected(self, eng, item) ==
    Res(Act([type |-> "DropItem", item |-> item]), self, eng)

on_item_selected(self, eng, item) ==
    IF self.kind = "InventoryActivateHandler"
    THEN InventoryActivateHandler_on_item_selected(self, eng, item)
    ELSE InventoryDropHandler_on_item_selected(self, eng, item)

\* An inventory menu whose letters are off by one: items[index - 1], which in
\* Python is the last item for index 0.
InventoryEventHandler_ev_keydown_off_by_one(self, eng, event) ==
    LET index == event.sym - K_a IN
    IF 0 <= index /\ index <= 26
    THEN IF index \in DOMAIN eng.items
         THEN on_item_selected(self, eng, eng.items[index])
         ELSE IF index = 0 /\ eng.items # <<>>
         THEN on_item_selected(self, eng, eng.items[Len(eng.items)])
         ELSE Res(None, self, add_message(eng, "Invalid entry."))
    ELSE AskUserEventHandler_ev_keydown(self, eng, event)

InventoryEventHandler_ev_keydown(self, eng, event) ==
    LET index == event.sym - K_a IN
    IF 0 <= index /\ index <= 26
    THEN IF index + 1 \in DOMAIN eng.items      \* items[index], else IndexError
         THEN on_item_selected(self, eng, eng.items[index + 1])
         ELSE Res(None, self, add_message(eng, "Invalid entry."))
    ELSE AskUserEventHandler_ev_keydown(self, eng, event)

(***************************************************************************)
(* SelectIndexHandler and its subclasses                                   *)
(***************************************************************************)
LookHandler_on_index_selected(self, eng, x, y) ==
    Res(Hnd(MainGameEventHandler), self, eng)

\* SingleRangedAttackHandler / AreaRangedAttackHandler: self.callback((x, y)),
\* the callback the consumable gave: the item's action aimed at (x, y).
callback(self, eng, x, y) ==
    Res(Act([type |-> "ItemAction", item |-> self.callback, target_xy |-> <<x, y>>]),
        self, eng)

on_index_selected(self, eng, x, y) ==
    IF self.kind = "LookHandler"
    THEN LookHandler_on_index_selected(self, eng, x, y)
    ELSE callback(self, eng, x, y)

\* A step multiplier that adds the factors of the held modifiers up.
modifier_sums(mod) ==
    Max(1, (IF BitAnd(mod, KMOD_LSHIFT + KMOD_RSHIFT) # 0 THEN 5 ELSE 0)
           + (IF BitAnd(mod, KMOD_LCTRL + KMOD_RCTRL) # 0 THEN 10 ELSE 0)
           + (IF BitAnd(mod, KMOD_LALT + KMOD_RALT) # 0 THEN 20 ELSE 0))

\* The step multiplier of a targeting move key.
modifier(mod) ==
    (IF BitAnd(mod, KMOD_LSHIFT + KMOD_RSHIFT) # 0 THEN 5 ELSE 1)
    * (IF BitAnd(mod, KMOD_LCTRL + KMOD_RCTRL) # 0 THEN 10 ELSE 1)
    * (IF BitAnd(mod, KMOD_LALT + KMOD_RALT) # 0 THEN 20 ELSE 1)

SelectIndexHandler_ev_keydown(self, eng, event) ==
    LET key == event.sym IN
    IF key \in DOMAIN MOVE_KEYS
    THEN LET x == eng.mouse_location[1] + MOVE_KEYS[key][1] * modifier(event.mod)
             y == eng.mouse_location[2] + MOVE_KEYS[key][2] * modifier(event.mod)
         IN  Res(None, self,
                 [eng EXCEPT !.mouse_location =
                     <<Max(0, Min(x, eng.width - 1)), Max(0, Min(y, eng.height - 1))>>])
    ELSE IF key \in CONFIRM_KEYS
    THEN on_index_selected(self, eng, eng.mouse_location[1], eng.mouse_location[2])
    ELSE AskUserEventHandler_ev_keydown(self, eng, event)

SelectIndexHandler_ev_mousebuttondown(self, eng, event) ==
    IF in_bounds(eng, event.tile[1], event.tile[2]) /\ event.button = 1
    THEN on_index_selected(self, eng, event.tile[1], event.tile[2])
    ELSE AskUserEventHandler_ev_mousebuttondown(self, eng, event)

(***************************************************************************)
(* MainGameEventHandler                                                    *)
(***************************************************************************)
MainGameEventHandler_ev_keydown(self, eng, event) ==
    LET key == event.sym IN
    IF key = K_x THEN Res(Act([type |-> "TakeStairsAction"]), self, eng)
    ELSE IF key \in DOMAIN MOVE_KEYS
    THEN Res(Act([type |-> "BumpAction", dx |-> MOVE_KEYS[key][1], dy |-> MOVE_KEYS[key][2]]),
             self, eng)
    ELSE IF key \in WAIT_KEYS THEN Res(Act([type |-> "WaitAction"]), self, eng)
    ELSE IF key = K_ESCAPE THEN Res(Raise("SystemExit"), self, eng)
    ELSE IF key = K_h THEN Res(Hnd(HistoryViewer(eng)), self, eng)
    ELSE IF key = K_g THEN Res(Act([type |-> "PickupAction"]), self, eng)
    ELSE IF key = K_r THEN Res(Hnd(InventoryActivateHandler), self, eng)
    ELSE IF key = K_f THEN Res(Hnd(InventoryDropHandler), self, eng)
    ELSE IF key = K_z THEN Res(Hnd(CharacterScreenEventHandler), self, eng)
    ELSE IF key = K_SLASH THEN Res(Hnd(LookHandler), self, SelectIndexHandler_init(eng))
    ELSE Res(None, self, eng)

(***************************************************************************)
(* GameOverEventHandler                                                    *)
(***************************************************************************)
\* An on_quit that leaves the save file where it is.
GameOverEventHandler_on_quit_keeps_save(self, eng) == Res(Raise("QuitWithoutSaving"), self, eng)

\* os.remove("savegame.sav") if it exists, then raise QuitWithoutSaving.
GameOverEventHandler_on_quit(self, eng) ==
    [Res(Raise("QuitWithoutSaving"), self, eng) EXCEPT !.unlink = TRUE]

GameOverEventHandler_ev_quit(self, eng, event) == GameOverEventHandler_on_quit(self, eng)

\* A game over screen that a confirm key leaves for the main game.
GameOverEventHandler_ev_keydown_restarts(self, eng, event) ==
    IF event.sym = K_ESCAPE
    THEN GameOverEventHandler_on_quit(self, eng)
    ELSE IF event.sym \in CONFIRM_KEYS
    THEN Res(Hnd(MainGameEventHandler), self, eng)
    ELSE Res(None, self, eng)

GameOverEventHandler_ev_keydown(self, eng, event) ==
    IF event.sym = K_ESCAPE
    THEN GameOverEventHandler_on_quit(self, eng)
    ELSE Res(None, self, eng)

(***************************************************************************)
(* HistoryViewer                                                           *)
(***************************************************************************)
\* A history viewer that wraps whenever a step passes an end of the log.
HistoryViewer_ev_keydown_wraps(self, eng, event) ==
    IF event.sym \in DOMAIN CURSOR_Y_KEYS
    THEN LET adjust == CURSOR_Y_KEYS[event.sym] IN
         IF self.cursor + adjust < 0
         THEN Res(None, [self EXCEPT !.cursor = self.log_length - 1], eng)
         ELSE IF self.cursor + adjust > self.log_length - 1
         THEN Res(None, [self EXCEPT !.cursor = 0], eng)
         ELSE Res(None, [self EXCEPT !.cursor = self.cursor + adjust], eng)
    ELSE IF event.sym = K_HOME
    THEN Res(None, [self EXCEPT !.cursor = 0], eng)
    ELSE IF event.sym = K_END
    THEN Res(Hnd(MainGameEventHandler), [self EXCEPT !.cursor = self.log_length - 1], eng)
    ELSE Res(None, self, eng)

\* A history viewer whose End key moves the cursor and stays open.
HistoryViewer_ev_keydown_end_stays(self, eng, event) ==
    IF event.sym \in DOMAIN CURSOR_Y_KEYS
    THEN LET adjust == CURSOR_Y_KEYS[event.sym] IN
         IF adjust < 0 /\ self.cursor = 0
         THEN Res(None, [self EXCEPT !.cursor = self.log_length - 1], eng)
         ELSE IF adjust > 0 /\ self.cursor = self.log_length - 1
         THEN Res(None, [self EXCEPT !.cursor = 0], eng)
         ELSE Res(None,
                  [self EXCEPT !.cursor =
                      Max(0, Min(self.cursor + adjust, self.log_length - 1))],
                  eng)
    ELSE IF event.sym = K_HOME
    THEN Res(None, [self EXCEPT !.cursor = 0], eng)
    ELSE IF event.sym = K_END
    THEN Res(None, [self EXCEPT !.cursor = self.log_length - 1], eng)
    ELSE Res(None, self, eng)

\* A history viewer whose steps are not clamped to the log.
HistoryViewer_ev_keydown_unclamped(self, eng, event) ==
    IF event.sym \in DOMAIN CURSOR_Y_KEYS
    THEN LET adjust == CURSOR_Y_KEYS[event.sym] IN
         IF adjust < 0 /\ self.cursor = 0
         THEN Res(None, [self EXCEPT !.cursor = self.log_length - 1], eng)
         ELSE IF adjust > 0 /\ self.cursor = self.log_length - 1
         THEN Res(None, [self EXCEPT !.cursor = 0], eng)
         ELSE Res(None, [self EXCEPT !.cursor = self.cursor + adjust], eng)
    ELSE IF event.sym = K_HOME
    THEN Res(None, [self EXCEPT !.cursor = 0], eng)
    ELSE IF event.sym = K_END
    THEN Res(Hnd(MainGameEventHandler), [self EXCEPT !.cursor = self.log_length - 1], eng)
    ELSE Res(None, self, eng)

HistoryViewer_ev_keydown(self, eng, event) ==
    IF event.sym \in DOMAIN CURSOR_Y_KEYS
    THEN LET adjust == CURSOR_Y_KEYS[event.sym] IN
         IF adjust < 0 /\ self.cursor = 0
         THEN Res(None, [self EXCEPT !.cursor = self.log_length - 1], eng)
         ELSE IF adjust > 0 /\ self.cursor = self.log_length - 1
         THEN Res(None, [self EXCEPT !.cursor = 0], eng)
         ELSE Res(None,
                  [self EXCEPT !.cursor =
                      Max(0, Min(self.cursor + adjust, self.log_length - 1))],
                  eng)
    ELSE IF event.sym = K_HOME
    THEN Res(None, [self EXCEPT !.cursor = 0], eng)
    ELSE IF event.sym = K_END
    THEN Res(Hnd(MainGameEventHandler), [self EXCEPT !.cursor = self.log_length - 1], eng)
    ELSE Res(None, self, eng)

(***************************************************************************)
(* tcod.event.EventDispatch.dispatch: the ev_* method of the handler's     *)
(* class for the event's type, found along the class's bases; an event     *)
(* type no class of the handler defines a method for returns None.         *)
(***************************************************************************)
ev_keydown(self, eng, event) ==
    CASE self.kind = "PopupMessage" -> PopupMessage_ev_keydown(self, eng, event)
      [] self.kind = "MainGameEventHandler" -> MainGameEventHandler_ev_keydown(self, eng, event)
      [] self.kind = "GameOverEventHandler" -> GameOverEventHandler_ev_keydown(self, eng, event)
      [] self.kind = "HistoryViewer" -> HistoryViewer_ev_keydown(self, eng, event)
      [] self.kind = "LevelUpEventHandler" -> LevelUpEventHandler_ev_keydown(self, eng, event)
      [] self.kind \in InventoryKinds -> InventoryEventHandler_ev_keydown(self, eng, event)
      [] self.kind \in SelectIndexKinds -> SelectIndexHandler_ev_keydown(self, eng, event)
      [] OTHER -> AskUserEventHandler_ev_keydown(self, eng, event)

ev_mousebuttondown(self, eng, event) ==
    CASE self.kind = "LevelUpEventHandler" ->
            LevelUpEventHandler_ev_mousebuttondown(self, eng, event)
      [] self.kind \in SelectIndexKinds ->
            SelectIndexHandler_ev_mousebuttondown(self, eng, event)
      [] self.kind \in AskUserKinds ->
            AskUserEventHandler_ev_mousebuttondown(self, eng, event)
      [] OTHER -> Res(None, self, eng)

ev_quit(self, eng, event) ==
    IF self.kind = "GameOverEventHandler"
    THEN GameOverEventHandler_ev_quit(self, eng, event)
    ELSE BaseEventHandler_ev_quit(self, eng, event)

ev_mousemotion(self, eng, event) ==
    IF self.kind \in EventHandlerKinds
    THEN EventHandler_ev_mousemotion(self, eng, event)
    ELSE Res(None, self, eng)

dispatch(self, eng, event) ==
    CASE event.type = "KeyDown" -> ev_keydown(self, eng, event)
      [] event.type = "MouseButtonDown" -> ev_mousebuttondown(self, eng, event)
      [] event.type = "MouseMotion" -> ev_mousemotion(self, eng, event)
      [] event.type = "Quit" -> ev_quit(self, eng, event)
      [] OTHER -> Res(None, self, eng)

(***************************************************************************)
(* The engine and the actions, as far as the handlers depend on them.      *)
(***************************************************************************)
\* Engine(player) on a map of the given size: nothing carried, nothing logged,
\* the cursor at (0, 0).
NewEngine(width, height, player_xy, capacity, xp_left) ==
    [is_alive |-> TRUE,
     capacity |-> capacity,      \* player.inventory.capacity
     xp_left |-> xp_left,        \* levels the monsters still alive are worth
     pending |-> 0,
     level_ups |-> [max_hp |-> 0, power |-> 0, defense |-> 0],
     items |-> <<>>,
     message_log |-> <<>>,
     mouse_location |-> <<0, 0>>,
     player_xy |-> player_xy,
     width |-> width,
     height |-> height]

Range(seq) == {seq[i] : i \in DOMAIN seq}

Remove(seq, x) == SelectSeq(seq, LAMBDA y : y # x)

\* A kill may bring the experience of one more level.
gain_xp(eng) ==
    {eng} \cup IF eng.xp_left > 0
               THEN {[eng EXCEPT !.pending = @ + 1, !.xp_left = @ - 1]}
               ELSE {}

\* Damage to the player may kill them.
hurt_player(eng) == {eng, [eng EXCEPT !.is_alive = FALSE]}

\* action.perform(): the engines it may leave when it returns normally.  Where
\* the map and the other entities decide (what stands on a tile, what lies on
\* the floor), every outcome they allow is returned.
perform_ok(eng, act) ==
    CASE act.type = "WaitAction" -> {eng}
      [] act.type = "BumpAction" ->
            LET x == eng.player_xy[1] + act.dx
                y == eng.player_xy[2] + act.dy
            IN  IF in_bounds(eng, x, y)
                THEN {[eng EXCEPT !.player_xy = <<x, y>>]} \cup gain_xp(eng)
                ELSE {}
      [] act.type = "PickupAction" ->
            IF Len(eng.items) < eng.capacity
            THEN {[eng EXCEPT !.items = Append(@, item)] : item \in Items \ Range(eng.items)}
            ELSE {}
      [] act.type = "TakeStairsAction" -> {eng}
      [] act.type = "DropItem" -> {[eng EXCEPT !.items = Remove(@, act.item)]}
      [] act.type = "EquipAction" -> {eng}
      [] act.type = "ItemAction" ->
            LET used == [eng EXCEPT !.items = Remove(@, act.item)] IN
            IF ItemKind(act.item) = "fireball"
            THEN UNION {hurt_player(e) : e \in gain_xp(used)}
            ELSE {used}

\* Whether action.perform() may raise exceptions.Impossible.
perform_impossible(eng, act) == act.type \notin {"WaitAction", "DropItem", "EquipAction"}

\* engine.handle_enemy_turns(): every other actor's behaviour runs once; what
\* the handlers see of it is whether the player survives.
handle_enemy_turns(eng) == hurt_player(eng)

\* engine.update_fov()
update_fov(eng) == eng

(***************************************************************************)
(* The dungeon of components/ai.py: floor and wall, the player, one        *)
(* hostile actor.  A strategy object is a record; heap[i] is the object of *)
(* identity i and a reference to it is the number i (0 is Python's None).  *)
(***************************************************************************)
Abs(n) == IF n < 0 THEN -n ELSE n

Cells(eng) == (0 .. eng.width - 1) \X (0 .. eng.height - 1)

\* The eight compass directions ConfusedEnemy.perform chooses from.
Directions == {d \in (-1 .. 1) \X (-1 .. 1) : d # <<0, 0>>}

\* HostileEnemy.perform: the Chebyshev distance of a delta.
distance(dx, dy) == Max(Abs(dx), Abs(dy))

\* HostileEnemy(entity): a strategy with nothing planned.
HostileEnemy == [kind |-> "HostileEnemy", path |-> <<>>]

\* ConfusedEnemy(entity, previous_ai, turns_remaining).  `announced` counts
\* the expiry messages this object has logged (history, not a field).
ConfusedEnemy(previous_ai, turns_remaining) ==
    [kind |-> "ConfusedEnemy", previous_ai |-> previous_ai,
     turns_remaining |-> turns_remaining, announced |-> 0]

\* Actor.is_alive: an actor lives while it has an ai.
is_alive(ent) == ent.ai # 0

\* gamemap.entities that block movement, as the tiles they stand on: the
\* player and the actor while it lives (a corpse blocks nothing).
blocking(eng, ent) ==
    (IF eng.is_alive THEN {eng.player_xy} ELSE {})
    \cup (IF is_alive(ent) THEN {<<ent.x, ent.y>>} ELSE {})

MinOf(S) == CHOOSE m \in S : \A k \in S : m <= k

\* A cost array in which a tile with a blocking entity on it is closed.
cost_array_closes_occupied(eng, gm, ent) ==
    [c \in Cells(eng) |-> IF c \in gm.walkable \ blocking(eng, ent) THEN 1 ELSE 0]

\* get_path_to, lines 25-34: the cost array.  A walkable tile costs 1 and 10
\* more for every blocking entity on it; 0 is a tile no path enters.
cost_array(eng, gm, ent) ==
    [c \in Cells(eng) |->
        IF c \in gm.walkable
        THEN 1 + (IF eng.is_alive /\ c = eng.player_xy THEN 10 ELSE 0)
               + (IF is_alive(ent) /\ c = <<ent.x, ent.y>> THEN 10 ELSE 0)
        ELSE 0]

adjacent(a, b) == distance(b[1] - a[1], b[2] - a[2]) = 1

\* A graph whose steps all cost the same.
edge_flat(cost, a, b) == cost[b] * 2

\* A graph whose diagonal step costs more than two cardinal ones.
edge_dear_diagonal(cost, a, b) == cost[b] * (IF a[1] = b[1] \/ a[2] = b[2] THEN 2 ELSE 5)

\* SimpleGraph(cost, cardinal=2, diagonal=3): what the step from a to its
\* neighbour b costs.
edge(cost, a, b) == cost[b] * (IF a[1] = b[1] \/ a[2] = b[2] THEN 2 ELSE 3)

\* Pathfinder.resolve: the cheapest cost of reaching every tile from the
\* root, -1 where no path arrives; relaxed until nothing gets cheaper.
RECURSIVE resolve(_, _)
resolve(cost, dist) ==
    LET reach(c) ==
            (IF dist[c] >= 0 THEN {dist[c]} ELSE {})
            \cup {dist[b] + edge(cost, b, c) :
                     b \in {b \in DOMAIN cost :
                               adjacent(b, c) /\ dist[b] >= 0 /\ cost[c] > 0}}
        relaxed == [c \in DOMAIN cost |-> IF reach(c) = {} THEN -1 ELSE MinOf(reach(c))]
    IN  IF relaxed = dist THEN dist ELSE resolve(cost, relaxed)

\* Pathfinder.path_to(c)[1:]: the cheapest routes from the root to c, the root
\* left out.  The library returns one of them.
RECURSIVE path_to(_, _, _)
path_to(cost, dist, c) ==
    IF dist[c] <= 0 THEN {<<>>}
    ELSE UNION {{Append(p, c) : p \in path_to(cost, dist, b)} :
                  b \in {b \in DOMAIN cost :
                            /\ adjacent(b, c)
                            /\ dist[b] >= 0
                            /\ dist[b] + edge(cost, b, c) = dist[c]}}

\* BaseAI.get_path_to(dest_x, dest_y): the paths the call may return, each the
\* tiles from the one after the actor's to the destination; empty when there
\* is no route.
get_path_to(eng, gm, ent, dest) ==
    LET cost == cost_array(eng, gm, ent)
        root == <<ent.x, ent.y>>
        dist == resolve(cost, [c \in DOMAIN cost |-> IF c = root THEN 0 ELSE -1])
    IN  path_to(cost, dist, dest)

\* The integers within one half of num / n.
Rounded(num, n) == {q \in -n .. n : 2 * Abs(n * q - num) <= n}

\* Whether the straight line from tile a to tile c passes floor only.
line_of_sight(gm, a, c) ==
    LET dx == c[1] - a[1]
        dy == c[2] - a[2]
        n == distance(dx, dy)
    IN  \A k \in 1 .. n - 1 :
            \E qx \in Rounded(k * dx, n), qy \in Rounded(k * dy, n) :
                <<a[1] + qx, a[2] + qy>> \in gm.walkable

\* compute_fov(tiles["transparent"], (player.x, player.y)): the tiles the
\* player sees.  Floor is transparent and wall is not.
compute_fov(eng, gm) == {c \in Cells(eng) : line_of_sight(gm, eng.player_xy, c)}

(***************************************************************************)
(* The actions an ai performs.  perform() leaves the engine and the actor  *)
(* as mutated and may raise Impossible.                                    *)
(***************************************************************************)
Outcome(eng, ent, raised) == [engine |-> eng, entity |-> ent, raised |-> raised]

\* Action.target_actor for an action of the hostile actor: the player, when
\* they live and stand on the destination.
target_actor(eng, ent, dx, dy) == eng.is_alive /\ eng.player_xy = <<ent.x + dx, ent.y + dy>>

\* MeleeAction(entity, dx, dy).perform()
MeleeAction_perform(eng, gm, ent, dx, dy) ==
    IF target_actor(eng, ent, dx, dy)
    THEN {Outcome(e, ent, FALSE) : e \in hurt_player(eng)}
    ELSE {Outcome(eng, ent, TRUE)}

\* MovementAction(entity, dx, dy).perform()
MovementAction_perform(eng, gm, ent, dx, dy) ==
    LET dest == <<ent.x + dx, ent.y + dy>> IN
    IF \/ ~in_bounds(eng, dest[1], dest[2])
       \/ dest \notin gm.walkable
       \/ dest \in blocking(eng, ent)
    THEN {Outcome(eng, ent, TRUE)}
    ELSE {Outcome(eng, [ent EXCEPT !.x = dest[1], !.y = dest[2]], FALSE)}

\* BumpAction(entity, dx, dy).perform()
BumpAction_perform(eng, gm, ent, dx, dy) ==
    IF target_actor(eng, ent, dx, dy)
    THEN MeleeAction_perform(eng, gm, ent, dx, dy)
    ELSE MovementAction_perform(eng, gm, ent, dx, dy)

\* WaitAction(entity).perform()
WaitAction_perform(eng, gm, ent) == {Outcome(eng, ent, FALSE)}

\* What one ai.perform() did: the strategy object that ran, the action it
\* performed with its delta, whether the action raised Impossible, whether
\* get_path_to was called and whether a step was taken off the path.
Turn(ai, act, dx, dy, raised, recomputed, popped) ==
    [ai |-> ai, action |-> act, dx |-> dx, dy |-> dy, raised |-> raised,
     recomputed |-> recomputed, popped |-> popped]

\* What ai.perform() leaves: the engine and the actor, the strategy object
\* that ran, and the record of the turn.
Performed(o, self, t) == [engine |-> o.engine, entity |-> o.entity, self |-> self, turn |-> t]

(***************************************************************************)
(* The strategies.  perform(eng, gm, ent, self) is the set of ways the     *)
(* call of entity.ai.perform() may end, self being heap[ent.ai].           *)
(***************************************************************************)
\* HostileEnemy.perform, lines 66-74: a step off the path, or a wait.
follow_path(eng, gm, ent, self, path, recomputed) ==
    IF path # <<>>
    THEN LET dx == path[1][1] - ent.x
             dy == path[1][2] - ent.y
         IN  {Performed(o, [self EXCEPT !.path = Tail(path)],
                        Turn(ent.ai, "MovementAction", dx, dy, o.raised, recomputed, TRUE)) :
                o \in MovementAction_perform(eng, gm, ent, dx, dy)}
    ELSE {Performed(o, [self EXCEPT !.path = path],
                    Turn(ent.ai, "WaitAction", 0, 0, o.raised, recomputed, FALSE)) :
            o \in WaitAction_perform(eng, gm, ent)}

\* A HostileEnemy.perform that plans its path before it looks at the distance.
HostileEnemy_perform_plans_first(eng, gm, ent, self) ==
    LET dx == eng.player_xy[1] - ent.x
        dy == eng.player_xy[2] - ent.y
    IN  IF <<ent.x, ent.y>> \in gm.visible
        THEN UNION {IF distance(dx, dy) <= 1
                    THEN {Performed(o, [self EXCEPT !.path = path],
                                    Turn(ent.ai, "MeleeAction", dx, dy, o.raised, TRUE, FALSE)) :
                            o \in MeleeAction_perform(eng, gm, ent, dx, dy)}
                    ELSE follow_path(eng, gm, ent, self, path, TRUE) :
                      path \in get_path_to(eng, gm, ent, eng.player_xy)}
        ELSE follow_path(eng, gm, ent, self, self.path, FALSE)

\* A HostileEnemy.perform that plans a new path whether it is seen or not.
HostileEnemy_perform_plans_unseen(eng, gm, ent, self) ==
    LET dx == eng.player_xy[1] - ent.x
        dy == eng.player_xy[2] - ent.y
    IN  IF <<ent.x, ent.y>> \in gm.visible /\ distance(dx, dy) <= 1
        THEN {Performed(o, self,
                        Turn(ent.ai, "MeleeAction", dx, dy, o.raised, FALSE, FALSE)) :
                o \in MeleeAction_perform(eng, gm, ent, dx, dy)}
        ELSE UNION {follow_path(eng, gm, ent, self, path, TRUE) :
                      path \in get_path_to(eng, gm, ent, eng.player_xy)}

\* HostileEnemy.perform
HostileEnemy_perform(eng, gm, ent, self) ==
    LET dx == eng.player_xy[1] - ent.x
        dy == eng.player_xy[2] - ent.y
    IN  IF <<ent.x, ent.y>> \in gm.visible
        THEN IF distance(dx, dy) <= 1
             THEN {Performed(o, self,
                             Turn(ent.ai, "MeleeAction", dx, dy, o.raised, FALSE, FALSE)) :
                     o \in MeleeAction_perform(eng, gm, ent, dx, dy)}
             ELSE UNION {follow_path(eng, gm, ent, self, path, TRUE) :
                           path \in get_path_to(eng, gm, ent, eng.player_xy)}
        ELSE follow_path(eng, gm, ent, self, self.path, FALSE)

\* ConfusedEnemy.perform, lines 91-93: the effect has run out.
expire(eng, gm, ent, self) ==
    {Performed(Outcome(add_message(eng, "The actor is no longer confused."),
                       [ent EXCEPT !.ai = self.previous_ai], FALSE),
               [self EXCEPT !.announced = @ + 1],
               Turn(ent.ai, "none", 0, 0, FALSE, FALSE, FALSE))}

\* A stumble that keeps its count when the bump raises Impossible.
stumble_counts_moves_only(eng, gm, ent, self) ==
    UNION {{Performed(o, [self EXCEPT !.turns_remaining = IF o.raised THEN @ ELSE @ - 1],
                      Turn(ent.ai, "BumpAction", d[1], d[2], o.raised, FALSE, FALSE)) :
              o \in BumpAction_perform(eng, gm, ent, d[1], d[2])} :
             d \in Directions}

\* ConfusedEnemy.perform, lines 94-117: one more stumble.
stumble(eng, gm, ent, self) ==
    UNION {{Performed(o, [self EXCEPT !.turns_remaining = @ - 1],
                      Turn(ent.ai, "BumpAction", d[1], d[2], o.raised, FALSE, FALSE)) :
              o \in BumpAction_perform(eng, gm, ent, d[1], d[2])} :
             d \in Directions}

\* A ConfusedEnemy.perform that hands the actor back on its last stumble.
ConfusedEnemy_perform_restores_early(eng, gm, ent, self) ==
    IF self.turns_remaining <= 0
    THEN expire(eng, gm, ent, self)
    ELSE {IF self.turns_remaining = 1
          THEN [r EXCEPT !.entity.ai = self.previous_ai]
          ELSE r : r \in stumble(eng, gm, ent, self)}

\* A ConfusedEnemy.perform whose expiry forgets to hand the actor back.
ConfusedEnemy_perform_keeps_slot(eng, gm, ent, self) ==
    IF self.turns_remaining <= 0
    THEN {[r EXCEPT !.entity.ai = ent.ai] : r \in expire(eng, gm, ent, self)}
    ELSE stumble(eng, gm, ent, self)

\* ConfusedEnemy.perform
ConfusedEnemy_perform(eng, gm, ent, self) ==
    IF self.turns_remaining <= 0
    THEN expire(eng, gm, ent, self)
    ELSE stumble(eng, gm, ent, self)

\* entity.ai.perform()
perform(eng, gm, ent, self) ==
    IF self.kind = "ConfusedEnemy"
    THEN ConfusedEnemy_perform(eng, gm, ent, self)
    ELSE HostileEnemy_perform(eng, gm, ent, self)

(***************************************************************************)
(* Events                                                                  *)
(***************************************************************************)
Letters == {K_a + i : i \in 0 .. 25}

Keys ==
    DOMAIN MOVE_KEYS \cup WAIT_KEYS \cup CONFIRM_KEYS \cup MODIFIER_KEYS \cup Letters
    \cup {K_a + 26, K_ESCAPE, K_SLASH, K_SPACE}

KeyDown(sym, mod) == [type |-> "KeyDown", sym |-> sym, mod |-> mod]
MouseButtonDown(tile, button) == [type |-> "MouseButtonDown", tile |-> tile, button |-> button]
MouseMotion(tile) == [type |-> "MouseMotion", tile |-> tile]
Quit == [type |-> "Quit"]
KeyUp(sym) == [type |-> "KeyUp", sym |-> sym]

\* Console tiles: the map and one column and row beyond it.
Tiles(eng) == (0 .. eng.width) \X (0 .. eng.height)

Events(eng) ==
    {KeyDown(k, 0) : k \in Keys}
    \cup {MouseButtonDown(t, b) : t \in Tiles(eng), b \in {1, 3}}
    \cup {MouseMotion(t) : t \in Tiles(eng)}
    \cup {Quit, KeyUp(K_a)}

(***************************************************************************)
(* The outer loop: main() and EventHandler.handle_events / handle_action,  *)
(* one step per call that changes state.                                   *)
(***************************************************************************)
TypeOK ==
    /\ pc \in {"input", "perform", "enemy_turns", "update_fov", "resolve", "exited"}
    /\ exit \in {"running", "SystemExit", "QuitWithoutSaving"}
    /\ savefile \in BOOLEAN
    /\ handler.kind \in BaseEventHandlerKinds
    /\ action.type \in {"none", "BumpAction", "WaitAction", "PickupAction",
                        "TakeStairsAction", "DropItem", "EquipAction", "ItemAction"}
    /\ Range(effects) \subseteq
           {"perform", "enemy_turns", "update_fov", "Impossible", "Exception"}

NoAction == [type |-> "none"]

\* No ai.perform() has run in this turn.
NoTurn == Turn(0, "none", 0, 0, FALSE, FALSE, FALSE)

\* A game in which the handlers meet no other actor.
InitWith(eng) ==
    /\ handler = MainGameEventHandler
    /\ engine = eng
    /\ pc = "input"
    /\ action = NoAction
    /\ effects = <<>>
    /\ exit = "running"
    /\ savefile = TRUE
    /\ game_map = [walkable |-> Cells(eng), visible |-> Cells(eng), number_of_turns |-> 0]
    /\ entity = [x |-> 0, y |-> 0, ai |-> 0]
    /\ heap = <<>>
    /\ turn = NoTurn

\* A new game with room for one item and one level to earn, the player walled
\* in on the only tile of the map.
Init == InitWith(NewEngine(1, 1, <<0, 0>>, 1, 1))

\* A new game with room for Capacity items.
InitInventory == InitWith(NewEngine(1, 1, <<0, 0>>, Capacity, 0))

\* A new game on a map of two tiles with MaxLevelUps levels to earn.
InitLevelUp == InitWith(NewEngine(2, 1, <<0, 0>>, 0, MaxLevelUps))

\* A game in which up to MaxHistLog messages have been logged.
InitHistory ==
    \E n \in 0 .. MaxHistLog :
        InitWith([NewEngine(1, 1, <<0, 0>>, 0, 0) EXCEPT
                    !.message_log = [i \in 1 .. n |-> "Welcome"]])

\* main(): the exception of a failed handle_events is printed and logged, the
\* handler stays the one before the event.
log_traceback(eng) == add_message(eng, "Traceback")

\* A handle_events that takes a turn of the game for a handler returned.
HandleEventOf_acts_on_handlers(event) ==
    LET r == dispatch(handler, engine, event) IN
    /\ pc = "input"
    /\ (r.engine.message_log # engine.message_log) => (Len(engine.message_log) < MaxLog)
    /\ effects' = <<>>
    /\ engine' = r.engine
    /\ savefile' = (savefile /\ ~r.unlink)
    /\ UNCHANGED ai_vars
    /\ CASE r.ret.tag = "Raise" ->
              /\ pc' = "exited"
              /\ exit' = r.ret.exc
              /\ handler' = r.self
              /\ action' = NoAction
         [] r.ret.tag = "Handler" ->
              /\ handler' = r.ret.handler
              /\ pc' = "enemy_turns"
              /\ UNCHANGED exit
              /\ action' = NoAction
         [] r.ret.tag = "Action" ->
              /\ handler' = r.self
              /\ action' = r.ret.action
              /\ pc' = "perform"
              /\ UNCHANGED exit
         [] OTHER ->
              /\ handler' = r.self
              /\ action' = NoAction
              /\ UNCHANGED <<pc, exit>>

\* handler = handler.handle_events(event), up to the call of action.perform():
\* BaseEventHandler.handle_events returns the handler dispatched or self, and
\* EventHandler.handle_events goes on to handle_action for an action.
HandleEventOf(event) ==
    LET r == dispatch(handler, engine, event) IN
    /\ pc = "input"
    /\ (r.engine.message_log # engine.message_log) => (Len(engine.message_log) < MaxLog)
    /\ effects' = <<>>
    /\ engine' = r.engine
    /\ savefile' = (savefile /\ ~r.unlink)
    /\ UNCHANGED ai_vars
    /\ CASE r.ret.tag = "Raise" ->
              /\ pc' = "exited"
              /\ exit' = r.ret.exc
              /\ handler' = r.self
              /\ action' = NoAction
         [] r.ret.tag = "Handler" ->
              /\ handler' = r.ret.handler
              /\ UNCHANGED <<pc, exit>>
              /\ action' = NoAction
         [] r.ret.tag = "Action" ->
              /\ handler' = r.self
              /\ action' = r.ret.action
              /\ pc' = "perform"
              /\ UNCHANGED exit
         [] OTHER ->
              /\ handler' = r.self
              /\ action' = NoAction
              /\ UNCHANGED <<pc, exit>>

HandleEvent == \E event \in Events(engine) : HandleEventOf(event)

\* A handle_action that refreshes the view right after the player's action.
PerformOk_skips_enemies ==
    /\ pc = "perform"
    /\ \E eng \in perform_ok(engine, action) : engine' = eng
    /\ effects' = Append(effects, "perform")
    /\ pc' = "update_fov"
    /\ UNCHANGED <<handler, action, exit, savefile>>
    /\ UNCHANGED ai_vars

\* handle_action: action.perform() returns.
PerformOk ==
    /\ pc = "perform"
    /\ \E eng \in perform_ok(engine, action) : engine' = eng
    /\ effects' = Append(effects, "perform")
    /\ pc' = "enemy_turns"
    /\ UNCHANGED <<handler, action, exit, savefile>>
    /\ UNCHANGED ai_vars

\* A handle_action that logs the Impossible message and goes on with the turn.
PerformImpossible_consumes_turn ==
    /\ pc = "perform"
    /\ perform_impossible(engine, action)
    /\ Len(engine.message_log) < MaxLog
    /\ engine' = add_message(engine, "Impossible")
    /\ effects' = Append(effects, "Impossible")
    /\ pc' = "enemy_turns"
    /\ UNCHANGED <<handler, action, exit, savefile>>
    /\ UNCHANGED ai_vars

\* handle_action: action.perform() raises Impossible: the message is logged,
\* handle_action returns False and handle_events returns self.
PerformImpossible ==
    /\ pc = "perform"
    /\ perform_impossible(engine, action)
    /\ Len(engine.message_log) < MaxLog
    /\ engine' = add_message(engine, "Impossible")
    /\ effects' = Append(effects, "Impossible")
    /\ pc' = "input"
    /\ UNCHANGED <<handler, action, exit, savefile>>
    /\ UNCHANGED ai_vars

\* A main() whose except clause puts the main game's handler back.
Unexpected_returns_to_main ==
    /\ pc \in {"perform", "enemy_turns", "update_fov"}
    /\ Len(engine.message_log) < MaxLog
    /\ engine' = log_traceback(engine)
    /\ effects' = Append(effects, "Exception")
    /\ pc' = "input"
    /\ handler' = MainGameEventHandler
    /\ UNCHANGED <<action, exit, savefile>>
    /\ UNCHANGED ai_vars

\* Any other exception out of handle_events reaches main()'s except clause:
\* traceback.print_exc() ("Exception" in effects) and the message logged.
Unexpected ==
    /\ pc \in {"perform", "enemy_turns", "update_fov"}
    /\ Len(engine.message_log) < MaxLog
    /\ engine' = log_traceback(engine)
    /\ effects' = Append(effects, "Exception")
    /\ pc' = "input"
    /\ UNCHANGED <<handler, action, exit, savefile>>
    /\ UNCHANGED ai_vars

\* handle_action: self.engine.handle_enemy_turns()
EnemyTurns ==
    /\ pc = "enemy_turns"
    /\ \E eng \in handle_enemy_turns(engine) : engine' = eng
    /\ effects' = Append(effects, "enemy_turns")
    /\ pc' = "update_fov"
    /\ UNCHANGED <<handler, action, exit, savefile>>
    /\ UNCHANGED ai_vars

\* handle_action: self.engine.update_fov(); return True
UpdateFov ==
    /\ pc = "update_fov"
    /\ engine' = update_fov(engine)
    /\ effects' = Append(effects, "update_fov")
    /\ pc' = "resolve"
    /\ UNCHANGED <<handler, action, exit, savefile>>
    /\ UNCHANGED ai_vars

\* A handle_events that looks at the level before it looks at the player's life.
next_handler_level_first(eng) ==
    IF requires_level_up(eng) THEN LevelUpEventHandler
    ELSE IF ~eng.is_alive THEN GameOverEventHandler
    ELSE MainGameEventHandler

\* handle_events after handle_action returned True: the next handler.
next_handler(eng) ==
    IF ~eng.is_alive THEN GameOverEventHandler
    ELSE IF requires_level_up(eng) THEN LevelUpEventHandler
    ELSE MainGameEventHandler

Resolve ==
    /\ pc = "resolve"
    /\ handler' = next_handler(engine)
    /\ pc' = "input"
    /\ UNCHANGED <<engine, action, effects, exit, savefile>>
    /\ UNCHANGED ai_vars

Next ==
    \/ HandleEvent
    \/ PerformOk
    \/ PerformImpossible
    \/ Unexpected
    \/ EnemyTurns
    \/ UpdateFov
    \/ Resolve

Spec == Init /\ [][Next]_vars

SpecInventory == InitInventory /\ [][Next]_vars

SpecLevelUp == InitLevelUp /\ [][Next]_vars

SpecHistory == InitHistory /\ [][Next]_vars

\* The game of Init, started with or without a savegame.sav on disk.
InitQuit ==
    \E present \in BOOLEAN :
        /\ handler = MainGameEventHandler
        /\ engine = NewEngine(1, 1, <<0, 0>>, 1, 1)
        /\ pc = "input"
        /\ action = NoAction
        /\ effects = <<>>
        /\ exit = "running"
        /\ savefile = present
        /\ game_map = [walkable |-> Cells(engine), visible |-> Cells(engine),
                       number_of_turns |-> 0]
        /\ entity = [x |-> 0, y |-> 0, ai |-> 0]
        /\ heap = <<>>
        /\ turn = NoTurn

SpecQuit == InitQuit /\ [][Next]_vars

\* A popup shown over a handler of a new game on a map of two tiles, with no
\* room for items and one level to earn: PopupMessage takes any
\* BaseEventHandler as its parent.
PopupParents(eng) ==
    {MainGameEventHandler, CharacterScreenEventHandler, HistoryViewer(eng)}

InitPopup ==
    \E parent_handler \in PopupParents(NewEngine(2, 1, <<0, 0>>, 0, 1)) :
        /\ handler = PopupMessage(parent_handler)
        /\ engine = NewEngine(2, 1, <<0, 0>>, 0, 1)
        /\ pc = "input"
        /\ action = NoAction
        /\ effects = <<>>
        /\ exit = "running"
        /\ savefile = TRUE
        /\ game_map = [walkable |-> Cells(engine), visible |-> Cells(engine),
                       number_of_turns |-> 0]
        /\ entity = [x |-> 0, y |-> 0, ai |-> 0]
        /\ heap = <<>>
        /\ turn = NoTurn

SpecPopup == InitPopup /\ [][Next]_vars

(***************************************************************************)
(* Target selection: a SelectIndexHandler as its constructor leaves it,    *)
(* and the events it handles, keys with modifiers held among them.         *)
(***************************************************************************)
\* The modifier bits SelectIndexHandler.ev_keydown looks at.
ModBits == {KMOD_LSHIFT, KMOD_RSHIFT, KMOD_LCTRL, KMOD_RCTRL, KMOD_LALT, KMOD_RALT}

\* The sets of modifiers held with a key: none, any single one, the left
\* ones in every combination, and all of them.
HeldSets ==
    {held \in SUBSET ModBits :
        \/ Cardinality(held) <= 1
        \/ held \subseteq {KMOD_LSHIFT, KMOD_LCTRL, KMOD_LALT}
        \/ held = ModBits}

\* event.mod: the bits of the held modifiers, or'ed.
RECURSIVE mod_of(_)
mod_of(held) ==
    IF held = {} THEN 0
    ELSE LET bit == CHOOSE b \in held : TRUE IN bit + mod_of(held \ {bit})

\* The move keys with modifiers held: the key, the modifiers and the event.
ModifiedMoves ==
    {[key |-> k, held |-> held, event |-> KeyDown(k, mod_of(held))] :
        k \in DOMAIN MOVE_KEYS, held \in HeldSets}

\* What the player does while aiming with the keyboard: keys, with and
\* without modifiers, a click on the player's tile or off the map, and the
\* window's close button.
TargetEvents(eng) ==
    {e \in Events(eng) :
        /\ e.type # "MouseMotion"
        /\ e.type = "MouseButtonDown" => e.tile \in {eng.player_xy, <<eng.width, eng.height>>}}
    \cup {m.event : m \in ModifiedMoves}

\* The player, in a corner of a map of twenty-two by two tiles, has just asked
\* to look around, or to aim the scroll they carry.
InitTarget ==
    \E p \in {<<0, 0>>, <<21, 1>>}, h \in {0} \cup {i \in Items : consumable(i)} :
        LET eng == NewEngine(22, 2, p, 1, 0)
            held == [eng EXCEPT !.items = IF h = 0 THEN <<>> ELSE <<h>>]
        IN  /\ handler = (IF h = 0 THEN LookHandler ELSE get_action(held, h).ret.handler)
            /\ engine = SelectIndexHandler_init(held)
            /\ pc = "input"
            /\ action = NoAction
            /\ effects = <<>>
            /\ exit = "running"
            /\ savefile = TRUE
            /\ game_map = [walkable |-> Cells(eng), visible |-> Cells(eng), number_of_turns |-> 0]
            /\ entity = [x |-> 0, y |-> 0, ai |-> 0]
            /\ heap = <<>>
            /\ turn = NoTurn

\* handle_events of a SelectIndexHandler.
HandleTargetEvent ==
    /\ handler.kind \in SelectIndexKinds
    /\ \E event \in TargetEvents(engine) : HandleEventOf(event)

NextTarget == HandleTargetEvent

SpecTarget == InitTarget /\ [][NextTarget]_vars

(***************************************************************************)
(* The cursor: the mouse moves over the window and beyond the map, the     *)
(* player opens and leaves the target selections and moves the cursor with *)
(* the keys, and neither acts nor quits.                                   *)
(***************************************************************************)
\* The tiles a mouse motion may report: the map and a margin around it.
CursorTiles(eng) == (-1 .. eng.width) \X (-1 .. eng.height)

CursorEvents(eng) ==
    {MouseMotion(t) : t \in CursorTiles(eng)}
    \cup {m.event : m \in ModifiedMoves}
    \cup {KeyDown(k, 0) : k \in {K_SLASH, K_r, K_a, K_a + 1, K_SPACE}}

\* The player, in a corner of a map of twelve by two tiles, carries a scroll
\* of confusion and a scroll of fireball.
InitCursor ==
    \E p \in {<<0, 0>>, <<11, 1>>} :
        LET eng == [NewEngine(12, 2, p, 2, 0) EXCEPT !.items = <<1, 2>>]
        IN  /\ handler = MainGameEventHandler
            /\ engine = eng
            /\ pc = "input"
            /\ action = NoAction
            /\ effects = <<>>
            /\ exit = "running"
            /\ savefile = TRUE
            /\ game_map = [walkable |-> Cells(eng), visible |-> Cells(eng), number_of_turns |-> 0]
            /\ entity = [x |-> 0, y |-> 0, ai |-> 0]
            /\ heap = <<>>
            /\ turn = NoTurn

\* handle_events of an event that yields no action.
HandleCursorEvent ==
    \E event \in CursorEvents(engine) :
        /\ dispatch(handler, engine, event).ret.tag # "Action"
        /\ HandleEventOf(event)

NextCursor == HandleCursorEvent

SpecCursor == InitCursor /\ [][NextCursor]_vars

(***************************************************************************)
(* The dungeon's turns: the player acts, the hostile actor's ai performs   *)
(* (Engine.handle_enemy_turns), the field of view is recomputed            *)
(* (Engine.update_fov).  The handler stays the main game's.                *)
(***************************************************************************)
\* A passage of three by two tiles, a pillar in the middle of its north side,
\* the player west of the pillar and a hostile actor east of it.  The scrolls
\* of confusion of this dungeon confuse for number_of_turns turns.
InitAI ==
    \E number_of_turns \in 0 .. MaxTurns :
    LET eng == NewEngine(3, 2, <<0, 0>>, 0, 0)
        gm == [walkable |-> Cells(eng) \ {<<1, 0>>}, visible |-> {},
               number_of_turns |-> number_of_turns]
    IN  /\ handler = MainGameEventHandler
        /\ engine = eng
        /\ pc = "input"
        /\ action = NoAction
        /\ effects = <<>>
        /\ exit = "running"
        /\ savefile = TRUE
        /\ game_map = [gm EXCEPT !.visible = compute_fov(eng, gm)]
        /\ entity = [x |-> 2, y |-> 0, ai |-> 1]
        /\ heap = <<HostileEnemy>>
        /\ turn = NoTurn

\* The player's BumpAction(player, dx, dy).perform() returns: an attack on the
\* actor standing there, which may kill it (Fighter.die: ai = None), or a
\* step onto free floor.
Player_BumpAction ==
    /\ pc = "input"
    /\ engine.is_alive
    /\ \E d \in Directions :
          LET dest == <<engine.player_xy[1] + d[1], engine.player_xy[2] + d[2]>> IN
          IF is_alive(entity) /\ dest = <<entity.x, entity.y>>
          THEN /\ entity' \in {entity, [entity EXCEPT !.ai = 0]}
               /\ UNCHANGED engine
          ELSE /\ in_bounds(engine, dest[1], dest[2])
               /\ dest \in game_map.walkable
               /\ dest \notin blocking(engine, entity)
               /\ engine' = [engine EXCEPT !.player_xy = dest]
               /\ UNCHANGED entity
    /\ pc' = "enemy_turns"
    /\ UNCHANGED <<game_map, heap, turn>>
    /\ UNCHANGED ui_vars

\* The player's WaitAction(player).perform()
Player_WaitAction ==
    /\ pc = "input"
    /\ engine.is_alive
    /\ pc' = "enemy_turns"
    /\ UNCHANGED <<engine, game_map, entity, heap, turn>>
    /\ UNCHANGED ui_vars

\* The player reads a scroll of confusion at the actor, which they see:
\* target.ai = ConfusedEnemy(entity=target, previous_ai=target.ai,
\*                           turns_remaining=number_of_turns)
Player_ItemAction ==
    /\ pc = "input"
    /\ engine.is_alive
    /\ is_alive(entity)
    /\ <<entity.x, entity.y>> \in game_map.visible
    /\ Len(heap) <= MaxCasts
    /\ heap' = Append(heap, ConfusedEnemy(entity.ai, game_map.number_of_turns))
    /\ entity' = [entity EXCEPT !.ai = Len(heap) + 1]
    /\ pc' = "enemy_turns"
    /\ UNCHANGED <<engine, game_map, turn>>
    /\ UNCHANGED ui_vars

\* Engine.handle_enemy_turns: the actor's ai performs, if it has one; an
\* Impossible out of it is dropped.
ActorTurn ==
    /\ pc = "enemy_turns"
    /\ IF is_alive(entity)
       THEN \E r \in perform(engine, game_map, entity, heap[entity.ai]) :
                /\ engine' = r.engine
                /\ entity' = r.entity
                /\ heap' = [heap EXCEPT ![entity.ai] = r.self]
                /\ turn' = r.turn
       ELSE UNCHANGED <<engine, entity, heap, turn>>
    /\ pc' = "update_fov"
    /\ UNCHANGED game_map
    /\ UNCHANGED ui_vars

\* Engine.update_fov: what the player sees from where they stand now.
RecomputeFov ==
    /\ pc = "update_fov"
    /\ game_map' = [game_map EXCEPT !.visible = compute_fov(engine, game_map)]
    /\ turn' = NoTurn
    /\ pc' = "input"
    /\ UNCHANGED <<engine, entity, heap>>
    /\ UNCHANGED ui_vars

NextAI ==
    \/ Player_BumpAction
    \/ Player_WaitAction
    \/ Player_ItemAction
    \/ ActorTurn
    \/ RecomputeFov

SpecAI == InitAI /\ [][NextAI]_vars

(***************************************************************************)
(* The path planner by itself: BaseAI.get_path_to called once, for any     *)
(* destination, on a small map with the actor and the player on floor; and *)
(* one turn of the hostile actor on the same maps.                         *)
(***************************************************************************)
\* The most wall tiles of a three by two map.
MaxWalls == 3

\* The open map of five by three tiles, and the maps of three by two tiles
\* with up to MaxWalls walls.
PathMaps ==
    {[width |-> 5, height |-> 3, walls |-> {}]}
    \cup {[width |-> 3, height |-> 2, walls |-> walls] :
             walls \in {w \in SUBSET ((0 .. 2) \X (0 .. 1)) : Cardinality(w) <= MaxWalls}}

\* The actor and the player stand on different floor tiles; the player lives
\* and blocks, or is a corpse and does not.
InitPath ==
    \E m \in PathMaps, alive \in BOOLEAN :
    \E a \in ((0 .. m.width - 1) \X (0 .. m.height - 1)) \ m.walls :
    \E p \in ((0 .. m.width - 1) \X (0 .. m.height - 1)) \ (m.walls \cup {a}) :
    LET eng == [NewEngine(m.width, m.height, p, 0, 0) EXCEPT !.is_alive = alive]
        gm == [walkable |-> Cells(eng) \ m.walls, visible |-> {}, number_of_turns |-> 0]
    IN  /\ handler = next_handler(eng)
        /\ engine = eng
        /\ pc = "enemy_turns"
        /\ action = NoAction
        /\ effects = <<>>
        /\ exit = "running"
        /\ savefile = TRUE
        /\ game_map = [gm EXCEPT !.visible = compute_fov(eng, gm)]
        /\ entity = [x |-> a[1], y |-> a[2], ai |-> 1]
        /\ heap = <<HostileEnemy>>
        /\ turn = NoTurn

\* A call of get_path_to as it returns.
Planned(dest, path) == [action |-> "get_path_to", dest |-> dest, path |-> path]

\* self.get_path_to(dest_x, dest_y)
GetPathTo ==
    /\ pc = "enemy_turns"
    /\ turn = NoTurn
    /\ \E dest \in Cells(engine) :
          \E path \in get_path_to(engine, game_map, entity, dest) :
              turn' = Planned(dest, path)
    /\ UNCHANGED <<pc, engine, game_map, entity, heap>>
    /\ UNCHANGED ui_vars

\* Engine.handle_enemy_turns on a map as it was set up.
PursueOnce ==
    /\ turn = NoTurn
    /\ ActorTurn

NextPath ==
    \/ GetPathTo
    \/ PursueOnce

SpecPath == InitPath /\ [][NextPath]_vars

(***************************************************************************)
(* Properties of the turn director (Spec)                                  *)
(***************************************************************************)
TurnEffects == <<"perform", "enemy_turns", "update_fov">>

Last(seq) == seq[Len(seq)]

\* C1: an action that fails with Impossible has its message logged and nothing
\* else changed, no enemy phase and no refresh of the view follow, and the
\* active handler stays; an event that yields no action (None) likewise leaves
\* the handler active with nothing run.
C1_ImpossibleConsumesNoTurn ==
    [][/\ (pc = "perform" /\ effects' = Append(effects, "Impossible")) =>
            /\ engine' = [engine EXCEPT !.message_log = Append(@, "Impossible")]
            /\ handler' = handler
            /\ pc' = "input"
       /\ ("Impossible" \in Range(effects)) => (effects = <<"Impossible">>)
       /\ ("Impossible" \in Range(effects)) => (pc = "input")
       /\ (/\ pc = "input"
           /\ ~(/\ handler'.kind = handler.kind
                /\ pc' = "input"
                /\ effects' = <<>>
                /\ action' = NoAction)) =>
            \A event \in Events(engine) :
                (dispatch(handler, engine, event).ret = None) => ~HandleEventOf(event)]_vars

\* C1 happens: a targeted item's action failed, the targeting handler is still
\* active and the message is the last of the log.
C1_Witness ==
    /\ pc = "input"
    /\ effects = <<"Impossible">>
    /\ action.type = "ItemAction"
    /\ handler.kind = "SingleRangedAttackHandler"
    /\ Last(engine.message_log) = "Impossible"

\* C2: when a turn has been consumed, the handler returned is GameOver if the
\* player is dead, else LevelUp if a level-up is due, else MainGame, whatever
\* handler produced the action.
C2_NextHandlerPriority ==
    (pc = "input" /\ effects = TurnEffects) =>
        handler = IF ~engine.is_alive THEN GameOverEventHandler
                  ELSE IF engine.pending > 0 THEN LevelUpEventHandler
                  ELSE MainGameEventHandler

\* C2 happens: an item used from a targeting handler earned a level in the turn
\* that killed the player, and GameOver is active.
C2_Witness ==
    /\ pc = "input"
    /\ effects = TurnEffects
    /\ action.type = "ItemAction"
    /\ ~engine.is_alive
    /\ engine.pending > 0
    /\ handler = GameOverEventHandler

\* C3: in a turn that is consumed the player's action comes first, the enemy
\* phase second and the refresh of the view third, each exactly once; the
\* enemy phase never runs before the action, nor the refresh before the phase.
C3_TurnOrder ==
    /\ effects \in {<<>>, <<"perform">>, <<"perform", "enemy_turns">>, TurnEffects,
                    <<"Impossible">>, <<"Exception">>, <<"perform", "Exception">>,
                    <<"perform", "enemy_turns", "Exception">>}
    /\ (pc = "enemy_turns") => (effects = <<"perform">>)
    /\ (pc = "update_fov") => (effects = <<"perform", "enemy_turns">>)
    /\ (pc = "resolve") => (effects = TurnEffects)

\* C3 happens: handle_action is about to return True for a dropped item.
C3_Witness ==
    /\ pc = "resolve"
    /\ effects = TurnEffects
    /\ action.type = "DropItem"

(***************************************************************************)
(* Properties of the strategies (SpecAI)                                   *)
(***************************************************************************)
\* The strategy object in the actor's ai slot.
ai_of(ent) == heap[ent.ai]

\* The actor's HostileEnemy strategy is about to perform.
HostileTurn ==
    /\ ActorTurn
    /\ is_alive(entity)
    /\ ai_of(entity).kind = "HostileEnemy"

\* The actor's ConfusedEnemy strategy is about to perform.
ConfusedTurn ==
    /\ ActorTurn
    /\ is_alive(entity)
    /\ ai_of(entity).kind = "ConfusedEnemy"

\* The Chebyshev distance from the actor to the player.
to_player == distance(engine.player_xy[1] - entity.x, engine.player_xy[2] - entity.y)

\* The actor attacks the player and leaves its path alone.
MeleeOnly ==
    /\ turn'.action = "MeleeAction"
    /\ <<entity.x + turn'.dx, entity.y + turn'.dy>> = engine.player_xy
    /\ ~turn'.recomputed
    /\ ~turn'.popped
    /\ heap'[entity.ai].path = ai_of(entity).path

\* C4 as claimed: on a HostileEnemy turn, whenever the actor is at Chebyshev
\* distance <= 1 from the player it attacks the player, whether or not its
\* tile is visible, and no path is recomputed and no path step is consumed.
C4_MeleeWhenAdjacent ==
    [][(HostileTurn /\ to_player <= 1) => MeleeOnly]_vars

\* C4 as the code has it: the attack needs the actor's tile to be visible.  At
\* distance <= 1 on a visible tile the actor attacks the player, and no path is
\* recomputed and no path step is consumed; on a tile that is not visible it
\* does not attack, however near: it takes the next step of its cached path,
\* or waits when that is empty, and plans nothing.
C4_MeleeWhenAdjacentAndVisible ==
    [][HostileTurn =>
         IF <<entity.x, entity.y>> \in game_map.visible
         THEN (to_player <= 1) => MeleeOnly
         ELSE /\ turn'.action = (IF ai_of(entity).path = <<>>
                                  THEN "WaitAction" ELSE "MovementAction")
              /\ ~turn'.recomputed
              /\ turn'.popped = (ai_of(entity).path # <<>>)]_vars

\* C4 happens: the actor, adjacent and seen, has just attacked the player.
C4_Witness ==
    /\ pc = "update_fov"
    /\ turn.action = "MeleeAction"
    /\ ~turn.raised
    /\ to_player = 1
    /\ <<entity.x, entity.y>> \in game_map.visible

\* The decrements a ConfusedEnemy has made of its counter.
decrements(self) == game_map.number_of_turns - self.turns_remaining

\* C5 as claimed: when a ConfusedEnemy constructed with N has made its N-th
\* decrement, the actor's ai slot holds the previous strategy, and the object
\* never logs its expiry more than once.
C5_RestoredAfterLastDecrement ==
    [][\A i \in DOMAIN heap :
         (/\ heap[i].kind = "ConfusedEnemy"
          /\ decrements(heap[i]) < game_map.number_of_turns
          /\ decrements(heap'[i]) = game_map.number_of_turns) =>
             /\ entity'.ai = heap[i].previous_ai
             /\ heap'[i].announced <= 1]_vars

\* C5 as the code has it: every turn of a ConfusedEnemy that starts with a
\* positive counter takes exactly one off it and leaves the object in the
\* slot, nothing announced; the turn after the N-th decrement, which starts
\* with the counter at zero, puts the previous strategy, the very object and
\* unchanged, back into the slot and logs the expiry, for the first and only
\* time.
C5_RestoredOnExpiryTurn ==
    [][ConfusedTurn =>
         LET self == ai_of(entity) IN
         /\ self.announced = 0
         /\ self.turns_remaining >= 0
         /\ IF self.turns_remaining = 0
            THEN /\ decrements(self) = game_map.number_of_turns
                 /\ entity'.ai = self.previous_ai
                 /\ self.previous_ai # 0 => heap'[self.previous_ai] = heap[self.previous_ai]
                 /\ heap'[entity.ai] = [self EXCEPT !.announced = 1]
            ELSE /\ entity'.ai = entity.ai
                 /\ heap'[entity.ai] = [self EXCEPT !.turns_remaining = @ - 1]]_vars

\* C5 happens: a confusion has run out and the actor pursues again with the
\* strategy it had before.
C5_Witness ==
    /\ pc = "input"
    /\ is_alive(entity)
    /\ ai_of(entity).kind = "HostileEnemy"
    /\ \E i \in DOMAIN heap :
          /\ heap[i].kind = "ConfusedEnemy"
          /\ game_map.number_of_turns = MaxTurns
          /\ heap[i].previous_ai = entity.ai
          /\ heap[i].announced = 1

\* C6 as claimed: once the actor's turn is over there is no state in which
\* the ConfusedEnemy in the actor's ai slot has its counter at zero.
C6_NoExpiredStrategyInSlot ==
    (pc \in {"update_fov", "input"} /\ is_alive(entity)) =>
        ~(ai_of(entity).kind = "ConfusedEnemy" /\ ai_of(entity).turns_remaining = 0)

\* C6 as the code has it: the restore happens in the first turn that starts
\* with the counter at zero, one turn after the counter got there.  In that
\* turn the slot changes, the expiry is logged and the actor does nothing
\* else; in every other turn of the strategy the slot and the log stay.
C6_RestoreWithinExpiryTurn ==
    [][ConfusedTurn =>
         IF ai_of(entity).turns_remaining <= 0
         THEN /\ entity' = [entity EXCEPT !.ai = ai_of(entity).previous_ai]
              /\ engine' = add_message(engine, "The actor is no longer confused.")
              /\ turn'.action = "none"
         ELSE /\ entity'.ai = entity.ai
              /\ engine'.message_log = engine.message_log
              /\ turn'.action = "BumpAction"]_vars

\* C6 happens: the turn that has just ended was an expiry.
C6_Witness ==
    /\ pc = "update_fov"
    /\ turn.action = "none"
    /\ turn.ai # 0
    /\ turn.ai # entity.ai
    /\ game_map.number_of_turns > 0
    /\ heap[turn.ai].turns_remaining = 0
    /\ Len(engine.message_log) = 1

(***************************************************************************)
(* Properties of the menus                                                 *)
(***************************************************************************)
\* The item a selection hands on: the action's item, or the item whose action
\* the targeting handler's callback builds.
SelectedItem(ret) ==
    CASE ret.tag = "Action" -> ret.action.item
      [] ret.tag = "Handler" -> ret.handler.callback
      [] OTHER -> 0

\* C7: in an inventory menu over k items, letter 'a'+i with i < k selects item
\* i of the list, different letters different items; every other letter of
\* 'a'..'z' logs "Invalid entry." and changes nothing else: the menu stays
\* active, the inventory is as it was, no action is taken and no turn runs.
C7_InventoryLetters ==
    [][(pc = "input" /\ handler.kind \in InventoryKinds) =>
        \A i \in 0 .. 25 :
            LET event == KeyDown(K_a + i, 0)
                r == dispatch(handler, engine, event)
            IN  IF i < Len(engine.items)
                THEN /\ r.ret.tag \in {"Action", "Handler"}
                     /\ SelectedItem(r.ret) = engine.items[i + 1]
                     /\ \A j \in 0 .. Len(engine.items) - 1 :
                            j # i => SelectedItem(dispatch(handler, engine,
                                         KeyDown(K_a + j, 0)).ret) # SelectedItem(r.ret)
                     /\ r.engine.items = engine.items
                     /\ (handler.kind = "InventoryDropHandler") =>
                            (HandleEventOf(event) =>
                                /\ pc' = "perform"
                                /\ action' = [type |-> "DropItem", item |-> engine.items[i + 1]])
                ELSE /\ r.ret = None
                     /\ r.self = handler
                     /\ r.engine = [engine EXCEPT !.message_log = Append(@, "Invalid entry.")]
                     /\ HandleEventOf(event) =>
                            /\ handler' = handler
                            /\ pc' = "input"
                            /\ action' = NoAction
                            /\ effects' = <<>>
                            /\ engine'.items = engine.items
                            /\ Last(engine'.message_log) = "Invalid entry."]_vars

\* C7 happens: with two items carried, a letter past them was refused and
\* logged, the drop menu stayed, and 'b' then chose the second item.
C7_Witness ==
    /\ handler.kind = "InventoryDropHandler"
    /\ Len(engine.items) = 2
    /\ pc = "perform"
    /\ action = [type |-> "DropItem", item |-> engine.items[2]]
    /\ engine.message_log = <<"Invalid entry.">>

LevelUpTotal(eng) == eng.level_ups.max_hp + eng.level_ups.power + eng.level_ups.defense

\* C8: in the level-up menu 'a', 'b' and 'c' raise max HP, power and defense
\* (that stat alone, once) and return MainGame; every other key, modifier keys
\* included, and every mouse click raises nothing and leaves the menu active;
\* so the menu is only left with exactly one upgrade applied.
C8_LevelUpChoice ==
    [][(pc = "input" /\ handler = LevelUpEventHandler) =>
        /\ \A event \in Events(engine) :
              LET r == dispatch(handler, engine, event)
                  stat == CASE event.sym = K_a -> "max_hp"
                            [] event.sym = K_a + 1 -> "power"
                            [] OTHER -> "defense"
              IN  CASE event.type = "KeyDown" /\ event.sym \in {K_a, K_a + 1, K_a + 2} ->
                        /\ r.ret = Hnd(MainGameEventHandler)
                        /\ r.engine.level_ups = [engine.level_ups EXCEPT ![stat] = @ + 1]
                        /\ HandleEventOf(event) =>
                              (handler' = MainGameEventHandler /\ pc' = "input")
                    [] event.type \in {"KeyDown", "MouseButtonDown"} ->
                        /\ r.ret = None
                        /\ r.engine.level_ups = engine.level_ups
                        /\ HandleEventOf(event) =>
                              (handler' = handler /\ pc' = "input" /\ effects' = <<>>)
                    [] OTHER -> TRUE
        /\ (handler' # handler) =>
              /\ handler' = MainGameEventHandler
              /\ LevelUpTotal(engine') = LevelUpTotal(engine) + 1]_vars

\* C8 happens: two level-up menus were left, one by 'b' and one by 'c'.
C8_Witness ==
    /\ handler = MainGameEventHandler
    /\ pc = "input"
    /\ engine.level_ups = [max_hp |-> 0, power |-> 1, defense |-> 1]

(***************************************************************************)
(* Properties of the history viewer (SpecHistory)                          *)
(***************************************************************************)
\* C9: in the history viewer Up from cursor 0 puts the cursor on the last
\* message; End puts the cursor on the last message and returns MainGame;
\* Home puts the cursor on 0 and the viewer stays.
C9_HistoryEnds ==
    [][(pc = "input" /\ handler.kind = "HistoryViewer") =>
        LET last == handler.log_length - 1
            up == dispatch(handler, engine, KeyDown(K_UP, 0))
            end == dispatch(handler, engine, KeyDown(K_END, 0))
            home == dispatch(handler, engine, KeyDown(K_HOME, 0))
        IN  /\ (handler.cursor = 0) => (up.self.cursor = last /\ up.ret = None)
            /\ (handler.cursor = 0 /\ HandleEventOf(KeyDown(K_UP, 0))) =>
                  handler' = [handler EXCEPT !.cursor = last]
            /\ end.self.cursor = last
            /\ end.ret = Hnd(MainGameEventHandler)
            /\ HandleEventOf(KeyDown(K_END, 0)) => handler' = MainGameEventHandler
            /\ home.self.cursor = 0
            /\ home.ret = None
            /\ HandleEventOf(KeyDown(K_HOME, 0)) =>
                  handler' = [handler EXCEPT !.cursor = 0]]_vars

\* C9 happens: a viewer on a log of twelve messages has its cursor on the first.
C9_Witness ==
    /\ handler.kind = "HistoryViewer"
    /\ handler.log_length = 12
    /\ handler.cursor = 0
    /\ pc = "input"

\* C10 as claimed, on a log that holds messages: Up/Down step by 1 and
\* PageUp/PageDown by 10, and every step that would pass the top wraps to the
\* bottom, every step that would pass the bottom wraps to the top, from any
\* cursor.
C10_WrapsFromAnywhere ==
    [][(pc = "input" /\ handler.kind = "HistoryViewer" /\ handler.log_length > 0) =>
        \A k \in DOMAIN CURSOR_Y_KEYS :
            HandleEventOf(KeyDown(k, 0)) =>
                LET step == CASE k = K_UP -> -1 [] k = K_DOWN -> 1
                              [] k = K_PAGEUP -> -10 [] OTHER -> 10
                    to == handler.cursor + step
                IN  handler'.cursor =
                        IF to < 0 THEN handler.log_length - 1
                        ELSE IF to > handler.log_length - 1 THEN 0
                        ELSE to]_vars

\* C10 amended: Up/Down step by 1 and PageUp/PageDown by 10; a step wraps only
\* from the boundary itself (upwards from 0 to the last index, downwards from
\* the last index to 0); any other step is clamped: not above the last index
\* and, that granted, not below 0.
C10_WrapsOnlyOnBoundary ==
    [][(pc = "input" /\ handler.kind = "HistoryViewer") =>
        \A k \in DOMAIN CURSOR_Y_KEYS :
            HandleEventOf(KeyDown(k, 0)) =>
                LET step == CASE k = K_UP -> -1 [] k = K_DOWN -> 1
                              [] k = K_PAGEUP -> -10 [] OTHER -> 10
                    to == handler.cursor + step
                    last == handler.log_length - 1
                IN  /\ handler'.kind = "HistoryViewer"
                    /\ handler'.log_length = handler.log_length
                    /\ handler'.cursor =
                        CASE step < 0 /\ handler.cursor = 0 -> last
                          [] step > 0 /\ handler.cursor = last -> 0
                          [] to > last /\ last >= 0 -> last
                          [] to < 0 \/ last < 0 -> 0
                          [] OTHER -> to]_vars

\* C10 happens: PageUp from the end of a log of twelve left the cursor on the
\* second message, from where another PageUp passes the top.
C10_Witness ==
    /\ handler.kind = "HistoryViewer"
    /\ handler.log_length = 12
    /\ handler.cursor = 1
    /\ pc = "input"

(***************************************************************************)
(* Properties of target selection (SpecTarget)                             *)
(***************************************************************************)
\* The factor of a set of held modifiers: 5 with a shift, 10 with a ctrl, 20
\* with an alt, multiplied.
Factor(held) ==
    (IF held \cap {KMOD_LSHIFT, KMOD_RSHIFT} # {} THEN 5 ELSE 1)
    * (IF held \cap {KMOD_LCTRL, KMOD_RCTRL} # {} THEN 10 ELSE 1)
    * (IF held \cap {KMOD_LALT, KMOD_RALT} # {} THEN 20 ELSE 1)

Clamp(v, lo, hi) == IF v < lo THEN lo ELSE IF v > hi THEN hi ELSE v

\* Where a move key with delta d and the modifiers held takes the cursor.
Moved(eng, d, held) ==
    <<Clamp(eng.mouse_location[1] + d[1] * Factor(held), 0, eng.width - 1),
      Clamp(eng.mouse_location[2] + d[2] * Factor(held), 0, eng.height - 1)>>

\* C11: in a target-selection handler a move key with delta (dx, dy) moves the
\* cursor by (dx * m, dy * m), m the product of 5 for shift, 10 for ctrl and 20
\* for alt, then x is clamped to [0, width - 1] and y to [0, height - 1]; the
\* key returns nothing, so the handler stays and no action is performed.
C11_CursorStep ==
    /\ [](\A m \in ModifiedMoves :
            (pc = "input" /\ handler.kind \in SelectIndexKinds) =>
                dispatch(handler, engine, m.event)
                    = Res(None, handler,
                          [engine EXCEPT !.mouse_location =
                              Moved(engine, MOVE_KEYS[m.key], m.held)]))
    /\ [][(/\ pc = "input"
           /\ handler.kind \in SelectIndexKinds
           /\ ~(handler' = handler /\ pc' = "input" /\ action' = NoAction
                   /\ effects' = <<>>)) =>
            \A m \in ModifiedMoves :
                (engine'.mouse_location = Moved(engine, MOVE_KEYS[m.key], m.held)) =>
                    ~HandleEventOf(m.event)]_vars

\* C11 happens: from the player's corner, move keys with modifiers held have
\* taken the cursor fifteen tiles along and into the other row, short of the
\* map's far edge (no mouse moves it in this specification).
C11_Witness ==
    /\ handler.kind \in SelectIndexKinds
    /\ pc = "input"
    /\ engine.player_xy = <<0, 0>>
    /\ engine.mouse_location = <<15, 1>>

(***************************************************************************)
(* Properties of the path planner (SpecPath)                               *)
(***************************************************************************)
\* The tile the planner starts from.
Origin == <<entity.x, entity.y>>

\* The tile before the i-th of a planned path.
Before(path, i) == IF i = 1 THEN Origin ELSE path[i - 1]

\* What a route from the origin costs on a cost array.
RECURSIVE route_cost(_, _, _)
route_cost(cost, from, path) ==
    IF path = <<>> THEN 0
    ELSE edge(cost, from, Head(path)) + route_cost(cost, Head(path), Tail(path))

\* C12: on an open map with nothing blocking but the planning actor, the
\* planned path to any tile has as many tiles as the Chebyshev distance from
\* the origin, ends at the destination, leaves the origin out, goes from
\* neighbour to neighbour and visits no tile twice.
C12_OpenGridPath ==
    (/\ turn.action = "get_path_to"
     /\ game_map.walkable = Cells(engine)
     /\ ~engine.is_alive) =>
        LET path == turn.path
            dest == turn.dest
        IN  /\ Len(path) = distance(dest[1] - entity.x, dest[2] - entity.y)
            /\ path # <<>> => path[Len(path)] = dest
            /\ \A i \in 1 .. Len(path) : path[i] # Origin
            /\ \A i \in 1 .. Len(path) : adjacent(Before(path, i), path[i])
            /\ \A i, j \in 1 .. Len(path) : i # j => path[i] # path[j]

\* A path of four tiles across the open map, with a diagonal step in it.
C12_Witness ==
    /\ turn.action = "get_path_to"
    /\ game_map.walkable = Cells(engine)
    /\ ~engine.is_alive
    /\ engine.width = 5
    /\ Origin = <<0, 0>>
    /\ turn.dest = <<4, 2>>
    /\ Len(turn.path) = 4

\* The tiles that steps over floor connect to the tiles of S.
RECURSIVE flood(_)
flood(S) ==
    LET more == S \cup {c \in game_map.walkable : \E b \in S : adjacent(b, c)}
    IN  IF more = S THEN S ELSE flood(more)

\* A destination with no floor next to it.
Enclosed(dest) == \A c \in game_map.walkable : ~adjacent(c, dest)

\* The same dungeon with the player not blocking.
Unoccupied == [engine EXCEPT !.is_alive = FALSE]

\* C13: a tile with a blocking occupant stays passable at a cost raised by
\* 10, so the planner returns a non-empty route, ending at the destination,
\* whenever floor connects the origin to a different destination; when every
\* cheapest route of the unoccupied map crosses the occupant's tile the
\* returned route costs strictly more than those; and the result is empty
\* when the destination is enclosed by unwalkable tiles or is the origin.
C13_OccupiedStaysPassable ==
    turn.action = "get_path_to" =>
        LET path == turn.path
            dest == turn.dest
            cost == cost_array(engine, game_map, entity)
            direct == get_path_to(Unoccupied, game_map, entity, dest)
        IN  /\ \A c \in blocking(engine, entity) : cost[c] > 10
            /\ (dest # Origin /\ dest \in flood({Origin})) =>
                    /\ path # <<>>
                    /\ path[Len(path)] = dest
                    /\ \A i \in 1 .. Len(path) :
                          path[i] \in game_map.walkable /\ adjacent(Before(path, i), path[i])
            /\ (/\ engine.is_alive
                /\ \A d \in direct : \E i \in 1 .. Len(d) : d[i] = engine.player_xy) =>
                    \A d \in direct :
                        route_cost(cost, Origin, path)
                            > route_cost(cost_array(Unoccupied, game_map, entity), Origin, d)
            /\ (Enclosed(dest) \/ dest = Origin) => path = <<>>

\* The living player stands in a corridor between the actor and the
\* destination, and the route goes over their tile.
C13_Witness ==
    /\ turn.action = "get_path_to"
    /\ engine.is_alive
    /\ Len(turn.path) >= 2
    /\ \E i \in 1 .. Len(turn.path) - 1 : turn.path[i] = engine.player_xy
    /\ \A d \in get_path_to(Unoccupied, game_map, entity, turn.dest) :
          \E i \in 1 .. Len(d) : d[i] = engine.player_xy

\* A destination on floor walled in on every side.
C13_Enclosed ==
    /\ turn.action = "get_path_to"
    /\ turn.dest \in game_map.walkable
    /\ turn.dest # Origin
    /\ Enclosed(turn.dest)

\* The sign of a number.
Sign(n) == IF n < 0 THEN -1 ELSE IF n > 0 THEN 1 ELSE 0

\* The actor and the player stand in one column or one row, more than one
\* tile apart, with nothing but floor on the tiles between them.
AlignedAndClear ==
    LET dx == engine.player_xy[1] - entity.x
        dy == engine.player_xy[2] - entity.y
    IN  /\ dx = 0 \/ dy = 0
        /\ to_player > 1
        /\ \A k \in 1 .. to_player - 1 :
              <<entity.x + k * Sign(dx), entity.y + k * Sign(dy)>> \in game_map.walkable

\* C14: a HostileEnemy on a visible tile, more than one tile from the player
\* and in the player's column or row with clear floor between them, moves one
\* cardinal step toward the player on its turn, never a diagonal one.
C14_CardinalApproach ==
    [][(/\ HostileTurn
        /\ <<entity.x, entity.y>> \in game_map.visible
        /\ AlignedAndClear) =>
            LET dx == Sign(engine.player_xy[1] - entity.x)
                dy == Sign(engine.player_xy[2] - entity.y)
            IN  /\ turn'.action = "MovementAction"
                /\ ~turn'.raised
                /\ <<turn'.dx, turn'.dy>> = <<dx, dy>>
                /\ entity' = [entity EXCEPT !.x = entity.x + dx, !.y = entity.y + dy]]_vars

\* The actor, two tiles south of the living player in their column, has just
\* stepped north along it.
C14_Witness ==
    /\ pc = "update_fov"
    /\ engine.is_alive
    /\ turn.action = "MovementAction"
    /\ turn.recomputed
    /\ ~turn.raised
    /\ <<turn.dx, turn.dy>> = <<0, -1>>
    /\ entity.x = engine.player_xy[1]
    /\ entity.y = engine.player_xy[2] + 1

(***************************************************************************)
(* Properties of the pursuit out of sight (SpecAI)                         *)
(***************************************************************************)
\* C15: a HostileEnemy further than one tile from the player and on a tile
\* that is not visible plans no path on its turn: with a cached path it takes
\* exactly the first tile off it and performs one MovementAction to that
\* tile, which puts the actor there unless the tile is taken; with no cached
\* path it performs a WaitAction and the path stays empty.  A path is planned
\* only on turns on which the actor's tile is visible.
C15_StalePathFollowed ==
    [][HostileTurn =>
         LET path == ai_of(entity).path
             seen == <<entity.x, entity.y>> \in game_map.visible
         IN  /\ turn'.recomputed => seen
             /\ (to_player > 1 /\ ~seen) =>
                   /\ ~turn'.recomputed
                   /\ IF path # <<>>
                      THEN /\ heap'[entity.ai].path = Tail(path)
                           /\ turn'.popped
                           /\ turn'.action = "MovementAction"
                           /\ <<entity.x + turn'.dx, entity.y + turn'.dy>> = path[1]
                           /\ entity' = IF turn'.raised THEN entity
                                        ELSE [entity EXCEPT !.x = path[1][1], !.y = path[1][2]]
                      ELSE /\ heap'[entity.ai].path = <<>>
                           /\ ~turn'.popped
                           /\ turn'.action = "WaitAction"
                           /\ entity' = entity]_vars

\* The actor, out of sight and further than one tile from the player, has
\* just moved onto the first tile of the path it had cached.
C15_Witness ==
    /\ pc = "update_fov"
    /\ turn.action = "MovementAction"
    /\ turn.popped
    /\ ~turn.recomputed
    /\ ~turn.raised
    /\ <<entity.x - turn.dx, entity.y - turn.dy>> \notin game_map.visible
    /\ distance(engine.player_xy[1] - (entity.x - turn.dx),
                engine.player_xy[2] - (entity.y - turn.dy)) > 1

(***************************************************************************)
(* Properties of quitting and of failures (SpecQuit, Spec)                 *)
(***************************************************************************)
\* The events that leave a finished game.
GameOverExits == {Quit, KeyDown(K_ESCAPE, 0)}

\* C16: whatever handler is active, a quit event ends the program; in the
\* GameOverEventHandler the quit event and the Escape key remove the save
\* file if there is one and then raise QuitWithoutSaving; and no step of the
\* program writes a save file.
C16_QuitTerminates ==
    /\ [](pc = "input" => dispatch(handler, engine, Quit).ret.tag = "Raise")
    /\ [][HandleEventOf(Quit) =>
             /\ pc' = "exited"
             /\ exit' = (IF handler.kind = "GameOverEventHandler"
                         THEN "QuitWithoutSaving" ELSE "SystemExit")
             /\ handler.kind # "GameOverEventHandler" => savefile' = savefile]_vars
    /\ [][\A event \in GameOverExits :
             (handler.kind = "GameOverEventHandler" /\ HandleEventOf(event)) =>
                 /\ pc' = "exited"
                 /\ exit' = "QuitWithoutSaving"
                 /\ ~savefile']_vars
    /\ [][~savefile => ~savefile']_vars

\* A finished game has been left, and the save file that was there is gone.
C16_Witness ==
    /\ pc = "exited"
    /\ handler.kind = "GameOverEventHandler"
    /\ exit = "QuitWithoutSaving"
    /\ ~savefile
    /\ ~engine.is_alive

\* What main() does with an unexpected exception: the loop goes on with the
\* handler it had, the traceback printed and logged.
Survived ==
    /\ pc' = "input"
    /\ exit' = "running"
    /\ handler' = handler
    /\ engine' = log_traceback(engine)
    /\ Last(effects') = "Exception"

\* C17 as claimed: when an unexpected exception ends the handling of an
\* event, the loop goes on, the traceback is printed and logged, the handler
\* is the one from before the event, and neither the enemies' turns nor the
\* refresh of the field of view have happened for that event.
C17_UnexpectedConsumesNoTurn ==
    [][Unexpected =>
         /\ Survived
         /\ "enemy_turns" \notin Range(effects')
         /\ "update_fov" \notin Range(effects')]_vars

\* C17 as the code has it: the loop goes on, the traceback is printed and
\* logged and the handler is the one from before the event; the refresh of
\* the field of view has not happened; the enemies' turns have not happened
\* when the exception came out of the player's action, and have happened when
\* it came out of the refresh of the field of view that follows them.
C17_UnexpectedKeepsHandler ==
    [][Unexpected =>
         /\ Survived
         /\ "update_fov" \notin Range(effects')
         /\ pc = "perform" => effects' = <<"Exception">>
         /\ pc = "update_fov" => effects' = <<"perform", "enemy_turns", "Exception">>]_vars

\* Dropping an item failed with an unexpected exception: the inventory menu
\* is still up, the traceback logged, no enemy has moved.
C17_Witness ==
    /\ pc = "input"
    /\ handler.kind = "InventoryDropHandler"
    /\ action.type = "DropItem"
    /\ effects = <<"Exception">>
    /\ engine.message_log = <<"Traceback">>

(***************************************************************************)
(* Properties of the handlers' transitions (Spec)                          *)
(***************************************************************************)
\* The key presses and mouse clicks a handler may get.
KeysAndClicks(eng) == {e \in Events(eng) : e.type \in {"KeyDown", "MouseButtonDown"}}

\* What the default of AskUserEventHandler answers to a key or a click.
DefaultAnswer(self, eng, event) ==
    IF event.type = "KeyDown" /\ event.sym \in MODIFIER_KEYS
    THEN Res(None, self, eng)
    ELSE Res(Hnd(MainGameEventHandler), self, eng)

\* C18: in the CharacterScreenEventHandler, which keeps the defaults of
\* AskUserEventHandler, every key that is not one of the nine modifier keys
\* and every mouse click makes the MainGameEventHandler the handler, and a
\* modifier key leaves the handler as it is; neither performs an action, runs
\* the enemies or changes the game.
C18_AskUserDefault ==
    /\ [](Cardinality(MODIFIER_KEYS) = 9)
    /\ []((pc = "input" /\ handler.kind = "CharacterScreenEventHandler") =>
             \A event \in KeysAndClicks(engine) :
                 dispatch(handler, engine, event) = DefaultAnswer(handler, engine, event))
    /\ [][(pc = "input" /\ handler.kind = "CharacterScreenEventHandler") =>
             \A event \in KeysAndClicks(engine) :
                 HandleEventOf(event) =>
                     /\ handler' = (IF event.type = "KeyDown" /\ event.sym \in MODIFIER_KEYS
                                    THEN handler ELSE MainGameEventHandler)
                     /\ pc' = "input"
                     /\ action' = NoAction
                     /\ effects' = <<>>
                     /\ engine' = engine]_vars

\* The character screen is up: a letter would close it, the left shift key
\* would not.
C18_Witness ==
    /\ pc = "input"
    /\ handler.kind = "CharacterScreenEventHandler"
    /\ dispatch(handler, engine, KeyDown(K_a, 0)).ret = Hnd(MainGameEventHandler)
    /\ dispatch(handler, engine, KeyDown(K_LSHIFT, 0)).ret = None
    /\ dispatch(handler, engine, MouseButtonDown(<<0, 0>>, 1)).ret = Hnd(MainGameEventHandler)

\* C19: once the GameOverEventHandler is the handler, no key, mouse motion or
\* mouse click makes another handler the handler, performs an action or runs
\* the enemies; the game stays as it is but for the cursor; and the program
\* goes on waiting for input until the quit event or the Escape key ends it.
C19_GameOverAbsorbing ==
    /\ [](handler.kind = "GameOverEventHandler" => pc \in {"input", "exited"})
    /\ []((handler.kind = "GameOverEventHandler" /\ pc = "input") =>
             \A event \in Events(engine) :
                 dispatch(handler, engine, event).ret =
                     (IF event \in GameOverExits THEN Raise("QuitWithoutSaving") ELSE None))
    /\ [][handler.kind = "GameOverEventHandler" =>
             /\ handler' = handler
             /\ action' = NoAction
             /\ effects' = <<>>
             /\ [engine' EXCEPT !.mouse_location = engine.mouse_location] = engine
             /\ pc' \in {"input", "exited"}
             /\ pc' = "exited" <=> (\E event \in GameOverExits : HandleEventOf(event))]_vars

\* The game is over and an event has been handled since: nothing was
\* performed and the handler is the same.
C19_Witness ==
    /\ pc = "input"
    /\ handler.kind = "GameOverEventHandler"
    /\ ~engine.is_alive
    /\ action = NoAction
    /\ effects = <<>>

\* C20: whenever the loop waits for the next event and the player is not
\* alive, the handler is the GameOverEventHandler, also after a turn in which
\* the enemies' turns or the refresh of the field of view ended in an
\* unexpected exception.
C20_DeadMeansGameOver ==
    (pc = "input" /\ ~engine.is_alive) => handler.kind = "GameOverEventHandler"

(***************************************************************************)
(* Properties of the steps an actor takes (SpecAI)                         *)
(***************************************************************************)
\* C21: every MovementAction a HostileEnemy performs is a single step: its
\* delta has Chebyshev length 1 from the tile the actor stands on, also when
\* the path it pops a tile from was planned on an earlier turn and the actor
\* is not where the plan left it.
C21_SingleStep ==
    [][(HostileTurn /\ turn'.action = "MovementAction") =>
         distance(turn'.dx, turn'.dy) = 1]_vars

\* The turns the strategy object i of objects and the overrides under it take
\* before the strategy at the bottom is back: for every ConfusedEnemy its
\* stumbles left and one expiry turn.
RECURSIVE turns_to_restore(_, _)
turns_to_restore(objects, i) ==
    IF i = 0 \/ objects[i].kind # "ConfusedEnemy" THEN 0
    ELSE objects[i].turns_remaining + 1 + turns_to_restore(objects, objects[i].previous_ai)

\* The strategy object at the bottom of the overrides that start at i.
RECURSIVE overridden(_, _)
overridden(objects, i) ==
    IF i = 0 \/ objects[i].kind # "ConfusedEnemy" THEN i
    ELSE overridden(objects, objects[i].previous_ai)

\* C22: confusions nest as a stack.  A second confusion keeps the first as
\* its previous_ai with the first's counter as it then stands; on every turn
\* of a confused actor only the override on top changes: with a positive
\* counter it stumbles and takes exactly 1 off, whether or not the bump
\* raises, and with the counter at 0 it hands the slot to the override or
\* strategy under it; so the overrides expire last in first out, the turns
\* left until the original strategy object is back, the stumbles of both
\* counters and two expiry turns, go down by exactly 1 with every turn the
\* actor gets, and no counter that started at 0 or more goes below 0.
C22_ConfusionStack ==
    /\ [](\A i \in DOMAIN heap :
             heap[i].kind = "ConfusedEnemy" =>
                 /\ heap[i].turns_remaining >= 0
                 /\ heap[i].previous_ai < i)
    /\ [][Player_ItemAction =>
             /\ heap'[entity'.ai].previous_ai = entity.ai
             /\ \A i \in DOMAIN heap : heap'[i] = heap[i]
             /\ turns_to_restore(heap', entity'.ai) =
                    game_map.number_of_turns + 1 + turns_to_restore(heap, entity.ai)
             /\ overridden(heap', entity'.ai) = overridden(heap, entity.ai)]_vars
    /\ [][ConfusedTurn =>
             LET self == ai_of(entity) IN
             /\ \A i \in DOMAIN heap : i # entity.ai => heap'[i] = heap[i]
             /\ heap'[entity.ai].previous_ai = self.previous_ai
             /\ IF self.turns_remaining > 0
                THEN /\ turn'.action = "BumpAction"
                     /\ heap'[entity.ai].turns_remaining = self.turns_remaining - 1
                     /\ entity'.ai = entity.ai
                ELSE /\ turn'.action = "none"
                     /\ heap'[entity.ai].turns_remaining = 0
                     /\ entity'.ai = self.previous_ai
             /\ turns_to_restore(heap', entity'.ai) = turns_to_restore(heap, entity.ai) - 1
             /\ overridden(heap', entity'.ai) = overridden(heap, entity.ai)]_vars

\* The actor was confused again while it was confused; the second confusion
\* and then the first have run out, each announced once, and the HostileEnemy
\* it had at the start is back.
C22_Witness ==
    /\ pc = "update_fov"
    /\ game_map.number_of_turns >= 2
    /\ Len(heap) = 3
    /\ heap[3].kind = "ConfusedEnemy" /\ heap[3].previous_ai = 2
    /\ heap[2].kind = "ConfusedEnemy" /\ heap[2].previous_ai = 1
    /\ heap[3].turns_remaining = 0 /\ heap[3].announced = 1
    /\ heap[2].turns_remaining = 0 /\ heap[2].announced = 1
    /\ turn.ai = 2
    /\ turn.action = "none"
    /\ entity.ai = 1

(***************************************************************************)
(* Properties of the cursor (SpecCursor)                                   *)
(***************************************************************************)
\* C23: engine.mouse_location is always a tile of the map, whatever mouse
\* motions, inside the map or outside it, entries into the target selections
\* and move keys with modifiers have come in whatever order.
C23_CursorInMap ==
    /\ 0 <= engine.mouse_location[1]
    /\ engine.mouse_location[1] <= engine.width - 1
    /\ 0 <= engine.mouse_location[2]
    /\ engine.mouse_location[2] <= engine.height - 1

\* The fireball is being aimed by the player in the north-west corner, the
\* cursor in the far corner of the map.
C23_Witness ==
    /\ pc = "input"
    /\ handler.kind = "AreaRangedAttackHandler"
    /\ engine.player_xy = <<0, 0>>
    /\ engine.mouse_location = <<engine.width - 1, engine.height - 1>>

(***************************************************************************)
(* Properties of the history viewer's cursor (SpecHistory)                 *)
(***************************************************************************)
\* The messages on_render shows: messages[: cursor + 1].
Shown == Min(Max(handler.cursor + 1, 0), Len(engine.message_log))

\* C24 as claimed: in a history viewer, for a log of any length, 0 and 1
\* too, the cursor never exceeds log_length - 1 and is never below 0 when the
\* log holds messages.
C24_CursorWithinLog ==
    handler.kind = "HistoryViewer" =>
        /\ handler.cursor <= handler.log_length - 1
        /\ handler.log_length > 0 => handler.cursor >= 0

\* C24 as the code has it: in a viewer of a log that holds messages the
\* cursor is from 0 to log_length - 1; in a viewer of an empty log it is -1
\* as constructed and 0 once a cursor key or Home was pressed; and the
\* messages shown never reach past the log there was at construction.
C24_CursorWithinFilledLog ==
    handler.kind = "HistoryViewer" =>
        /\ handler.log_length > 0 =>
              (0 <= handler.cursor /\ handler.cursor <= handler.log_length - 1)
        /\ handler.log_length = 0 => handler.cursor \in {-1, 0}
        /\ Shown <= handler.log_length

\* The viewer of an empty log after a key: the cursor is on 0 and nothing is
\* shown.
C24_Witness ==
    /\ pc = "input"
    /\ handler.kind = "HistoryViewer"
    /\ handler.log_length = 0
    /\ handler.cursor = 0
    /\ Shown = 0

(***************************************************************************)
(* Properties of the handlers returned by an event (SpecPopup)             *)
(***************************************************************************)
\* handle_events returns a handler that the handler's own method returned.
YieldsHandler ==
    /\ pc = "input"
    /\ \E event \in Events(engine) :
          /\ dispatch(handler, engine, event).ret.tag = "Handler"
          /\ HandleEventOf(event)

\* C25: a change of handler does not advance the game.  When the event's
\* method returns a handler (the main game opening the history, an inventory,
\* the character screen or the look cursor, an AskUser handler left, a level-up
\* chosen, End in the history, a popup giving way to its parent), the call is
\* over with that handler: no action is performed, no enemy turn is taken and
\* the field of view is not computed, the player is where and as they were.
\* Enemy turns are taken only after the action an event returned was
\* performed without Impossible.  (A handler returned is never the one in
\* hand, first conjunct, so the steps of the second are all that return one.)
C25_HandlersTakeNoTurn ==
    /\ [](pc = "input" =>
            \A event \in Events(engine) :
                LET r == dispatch(handler, engine, event) IN
                r.ret.tag = "Handler" => r.ret.handler # handler)
    /\ [][(handler' # handler /\ YieldsHandler) =>
            /\ pc' = "input"
            /\ effects' = <<>>
            /\ action' = NoAction
            /\ engine'.is_alive = engine.is_alive
            /\ engine'.items = engine.items
            /\ engine'.player_xy = engine.player_xy
            /\ engine'.xp_left = engine.xp_left
            /\ UNCHANGED ai_vars]_vars
    /\ [][(pc' = "enemy_turns" \/ "enemy_turns" \in Range(effects')) =>
            /\ action' # NoAction
            /\ effects'[1] = "perform"
            /\ "Impossible" \notin Range(effects')]_vars

\* The inventory opened from the main game after something was logged: the
\* call that returned the handler left no effect on record and no action.
C25_Witness ==
    /\ pc = "input"
    /\ handler.kind = "InventoryActivateHandler"
    /\ effects = <<>>
    /\ action = NoAction
    /\ Len(engine.message_log) = 1

====
